---- MODULE Spec2Model ----
(***************************************************************************)
(* DC circuit-analysis engine (js/circuit-simulator.js, CircuitAnalyzer)   *)
(* together with the component geometry it reads (js/renderer.js,          *)
(* Component / Wire) and the built-in circuits of the controller           *)
(* (js/main.js).                                                           *)
(*                                                                         *)
(* Numbers.  Coordinates are held as integers in units of 1/Scale of a     *)
(* design unit, so that non-integer coordinates and Math.round are part    *)
(* of the model.  Matrix entries, currents and voltages are exact          *)
(* rationals <<num, den>> (den > 0, lowest terms); the solver's 1e-10      *)
(* threshold is compared exactly.                                          *)
(***************************************************************************)
EXTENDS Integers, Sequences, FiniteSets, TLC

VARIABLES
    circuit,    \* the caller's components and wires (main.js: this.components, this.wires)
    analyzer,   \* the fields of the CircuitAnalyzer object
    ret,        \* what the most recent simulate() call returned, with the stages it ran
    reply,      \* what the most recent validateCircuit() / getAnalysisReport() call returned
    lastRun,    \* history: the results of the last successful simulate() since construction or reset
    system,     \* solveCircuit's G and I while netlist.components.forEach stamps them
    solver,     \* solveLinearSystem's augmented matrix and loop position
    app,        \* the controller's undo history (main.js: this.history, this.historyIndex)
    input,      \* the fields of the InputHandler object
    event       \* the parity of the number of events handled, what Escape last
                \* cancelled and how the text last parsed was judged

vars == <<circuit, analyzer, ret, reply, lastRun, system, solver, app, input, event>>

\* The variables of the assembly loop and of the editor.
assemblyVars == <<system, solver>>
editorVars == <<app, input, event>>

(***************************************************************************)
(* Bounds of the model                                                     *)
(***************************************************************************)
Scale == 2            \* coordinate resolution: 1/Scale design units
MaxComponents == 3    \* components of a drawn circuit
MaxWires == 1         \* wires of a drawn circuit

(***************************************************************************)
(* Program constants                                                       *)
(***************************************************************************)
tolerance == 15               \* buildNetlist: connection matching distance
TwoTerminalReach == 30        \* getConnectionPoints: resistor, capacitor, inductor
VoltageReach == 25            \* getConnectionPoints: voltage source
DefaultResistance == 1000     \* addResistor: resistance || 1000
DefaultVoltage == 5           \* addVoltageSource: voltage || 5
LargeConductance == 1000      \* addVoltageSource / addInductor: large conductance
PivotScale == 100000          \* solveLinearSystem: 1e-10 = 1 / (PivotScale * PivotScale)
InductorPerOhm == 1000        \* calculateComponentValues: voltage / 0.001 = voltage * 1000

\* JavaScript null / undefined, as a record so that it compares with records.
Null == [null |-> TRUE]

(***************************************************************************)
(* Exact rational arithmetic                                               *)
(***************************************************************************)
Abs(a) == IF a < 0 THEN -a ELSE a

RECURSIVE GCD(_, _)
GCD(a, b) == IF b = 0 THEN a ELSE GCD(b, a % b)

Rat(n, d) ==
    LET g == GCD(Abs(n), Abs(d))
        s == IF d < 0 THEN -1 ELSE 1
    IN IF n = 0 THEN <<0, 1>> ELSE <<s * (n \div g), s * (d \div g)>>

RZero == <<0, 1>>
RInt(n) == <<n, 1>>
RNeg(a) == <<-a[1], a[2]>>
RAdd(a, b) ==
    LET g == GCD(a[2], b[2])
    IN Rat(a[1] * (b[2] \div g) + b[1] * (a[2] \div g), (a[2] \div g) * b[2])
RSub(a, b) == RAdd(a, RNeg(b))
RMul(a, b) ==
    LET g1 == GCD(Abs(a[1]), b[2])
        g2 == GCD(Abs(b[1]), a[2])
    IN IF a[1] = 0 \/ b[1] = 0 THEN RZero
       ELSE <<(a[1] \div g1) * (b[1] \div g2), (a[2] \div g2) * (b[2] \div g1)>>
\* b # 0
RDiv(a, b) == RMul(a, IF b[1] < 0 THEN <<-b[2], -b[1]>> ELSE <<b[2], b[1]>>)
RAbs(a) == <<Abs(a[1]), a[2]>>
RLess(a, b) == RSub(a, b)[1] < 0
RLeq(a, b) == RSub(a, b)[1] <= 0

(***************************************************************************)
(* Geometry: Vector2, Component.getConnectionPoints, Wire                  *)
(***************************************************************************)
Vector2(x, y) == [x |-> x, y |-> y]

\* A coordinate given in design units.
U(n) == n * Scale

\* Math.round of a coordinate (round half up), in design units.
MathRound(v) == (2 * v + Scale) \div (2 * Scale)

\* Math.cos / Math.sin of rotation r * PI/2.
Cos4(r) == <<1, 0, -1, 0>>[(r % 4) + 1]
Sin4(r) == <<0, 1, 0, -1>>[(r % 4) + 1]

getConnectionPoints(c) ==
    LET cos == Cos4(c.rotation)
        sin == Sin4(c.rotation)
        ends(reach) ==
            << Vector2(c.position.x - U(reach) * cos, c.position.y - U(reach) * sin),
               Vector2(c.position.x + U(reach) * cos, c.position.y + U(reach) * sin) >>
    IN CASE c.type \in {"resistor", "capacitor", "inductor"} -> ends(TwoTerminalReach)
         [] c.type = "voltage" -> ends(VoltageReach)
         [] c.type = "ground" -> << Vector2(c.position.x, c.position.y) >>
         [] OTHER -> << >>

\* new Component(type, position, rotation) with its id and properties set.
Component(id, type, position, rotation, properties) ==
    [id |-> id, type |-> type, position |-> position, rotation |-> rotation,
     properties |-> properties]

\* new Wire(startPoint, endPoint)
Wire(startPoint, endPoint) == [startPoint |-> startPoint, endPoint |-> endPoint]

(***************************************************************************)
(* buildNetlist                                                            *)
(***************************************************************************)
\* The points of one component, tagged as in allPoints.push({... component}).
ComponentPointEntries(c) ==
    LET pts == getConnectionPoints(c)
    IN [i \in 1..Len(pts) |->
          [x |-> pts[i].x, y |-> pts[i].y, kind |-> "component", ground |-> c.type = "ground"]]

RECURSIVE ComponentPointsFrom(_, _)
ComponentPointsFrom(comps, i) ==
    IF i > Len(comps) THEN << >>
    ELSE ComponentPointEntries(comps[i]) \o ComponentPointsFrom(comps, i + 1)

RECURSIVE WirePointsFrom(_, _)
WirePointsFrom(ws, i) ==
    IF i > Len(ws) THEN << >>
    ELSE << [x |-> ws[i].startPoint.x, y |-> ws[i].startPoint.y, kind |-> "wire_start", ground |-> FALSE],
            [x |-> ws[i].endPoint.x, y |-> ws[i].endPoint.y, kind |-> "wire_end", ground |-> FALSE] >>
         \o WirePointsFrom(ws, i + 1)

\* allPoints: every component's connection points, then every wire's two ends.
allPoints(comps, ws) == ComponentPointsFrom(comps, 1) \o WirePointsFrom(ws, 1)

\* Math.pow(point.x - otherPoint.x, 2) + Math.pow(point.y - otherPoint.y, 2)
SquaredDistance(p, q) == (p.x - q.x) * (p.x - q.x) + (p.y - q.y) * (p.y - q.y)

\* A comparison that leaves out a point at exactly the tolerance.
WithinTolerance_strict(p, q) ==
    (p.x - q.x) * (p.x - q.x) + (p.y - q.y) * (p.y - q.y) < U(tolerance) * U(tolerance)

\* distance <= tolerance, on the squares (Math.sqrt is monotone and exact at 225).
WithinTolerance(p, q) ==
    (p.x - q.x) * (p.x - q.x) + (p.y - q.y) * (p.y - q.y) <= U(tolerance) * U(tolerance)

RECURSIVE Ascending(_)
Ascending(S) ==
    IF S = {} THEN << >>
    ELSE LET m == CHOOSE a \in S : \A b \in S : a <= b
         IN <<m>> \o Ascending(S \ {m})

\* The forEach over allPoints that builds nodeGroups: each unprocessed point
\* seeds a group and takes every unprocessed point within tolerance of it.
\* A group is the sequence of its points' indices in allPoints, seed first.
RECURSIVE GroupFrom(_, _, _, _)
GroupFrom(pts, index, processed, groups) ==
    IF index > Len(pts) THEN groups
    ELSE IF index \in processed THEN GroupFrom(pts, index + 1, processed, groups)
    ELSE LET others == {o \in 1..Len(pts) :
                          o # index /\ o \notin processed /\ WithinTolerance(pts[index], pts[o])}
         IN GroupFrom(pts, index + 1, processed \cup {index} \cup others,
                      Append(groups, <<index>> \o Ascending(others)))

nodeGroups(pts) == GroupFrom(pts, 1, {}, << >>)

\* `${Math.round(point.x)},${Math.round(point.y)}`
Key(p) == <<MathRound(p.x), MathRound(p.y)>>

hasGround(pts, group) == \E i \in 1..Len(group) : pts[group[i]].ground

\* Index of the first group that holds a ground component's point, or 0.
FirstGroundGroup(pts, groups) ==
    IF \E g \in 1..Len(groups) : hasGround(pts, groups[g])
    THEN CHOOSE g \in 1..Len(groups) :
            /\ hasGround(pts, groups[g])
            /\ \A h \in 1..(g - 1) : ~hasGround(pts, groups[h])
    ELSE 0

EmptyMap == [k \in {} |-> 0]
MapHas(m, k) == k \in DOMAIN m
MapSet(m, k, v) == (k :> v) @@ m

\* group.forEach(point => nodeMap.set(key, 0))
RECURSIVE SetGroupKeys(_, _, _, _)
SetGroupKeys(m, pts, group, i) ==
    IF i > Len(group) THEN m
    ELSE SetGroupKeys(MapSet(m, Key(pts[group[i]]), 0), pts, group, i + 1)

\* group.forEach(point => { if (!nodeMap.has(key)) nodeMap.set(key, nodeId) })
RECURSIVE SetGroupKeysIfAbsent(_, _, _, _, _)
SetGroupKeysIfAbsent(m, pts, group, i, nodeId) ==
    IF i > Len(group) THEN m
    ELSE LET k == Key(pts[group[i]])
         IN SetGroupKeysIfAbsent(IF MapHas(m, k) THEN m ELSE MapSet(m, k, nodeId),
                                 pts, group, i + 1, nodeId)

\* "Find ground node first": only the first group with a ground point is entered.
GroundPass(pts, groups) ==
    LET g == FirstGroundGroup(pts, groups)
    IN IF g = 0 THEN [nodeMap |-> EmptyMap, groundNodeId |-> Null]
       ELSE [nodeMap |-> SetGroupKeys(EmptyMap, pts, groups[g], 1), groundNodeId |-> [id |-> 0]]

\* "Assign IDs to other nodes": every group without a ground point, in order.
RECURSIVE OtherPass(_, _, _, _)
OtherPass(st, pts, groups, g) ==
    IF g > Len(groups) THEN st
    ELSE IF hasGround(pts, groups[g]) THEN OtherPass(st, pts, groups, g + 1)
    ELSE OtherPass([nodeMap |-> SetGroupKeysIfAbsent(st.nodeMap, pts, groups[g], 1, st.nodeId),
                    nodeId |-> st.nodeId + 1],
                   pts, groups, g + 1)

\* nodeMap and the final nodeId after both passes.
AssignNodeIds(pts, groups) ==
    LET first == GroundPass(pts, groups)
        start == IF first.groundNodeId # Null THEN 1 ELSE 0
    IN OtherPass([nodeMap |-> first.nodeMap, nodeId |-> start], pts, groups, 1)

\* nodeMap.get(key) || 0
NodeOf(nodeMap, p) == IF MapHas(nodeMap, Key(p)) THEN nodeMap[Key(p)] ELSE 0

componentNodes(nodeMap, c) ==
    LET pts == getConnectionPoints(c)
    IN [i \in 1..Len(pts) |-> NodeOf(nodeMap, pts[i])]

RECURSIVE NetlistComponentsFrom(_, _, _)
NetlistComponentsFrom(nodeMap, comps, i) ==
    IF i > Len(comps) THEN << >>
    ELSE IF comps[i].type = "ground" THEN NetlistComponentsFrom(nodeMap, comps, i + 1)
    ELSE << [id |-> comps[i].id, type |-> comps[i].type,
             nodes |-> componentNodes(nodeMap, comps[i]),
             properties |-> comps[i].properties] >>
         \o NetlistComponentsFrom(nodeMap, comps, i + 1)

\* nodeMap as it stands when the component netlist is built.
nodeMapOf(comps, ws) ==
    LET pts == allPoints(comps, ws)
    IN AssignNodeIds(pts, nodeGroups(pts)).nodeMap

\* The netlist whose node count leaves the ground node out.
NetlistOf_countsUnknowns(comps, ws) ==
    LET pts == allPoints(comps, ws)
        assigned == AssignNodeIds(pts, nodeGroups(pts))
    IN [components |-> NetlistComponentsFrom(assigned.nodeMap, comps, 1),
        nodeCount |-> IF assigned.nodeId > 0 THEN assigned.nodeId - 1 ELSE 0]

\* The netlist of the given components and wires.
NetlistOf(comps, ws) ==
    LET pts == allPoints(comps, ws)
        assigned == AssignNodeIds(pts, nodeGroups(pts))
    IN [components |-> NetlistComponentsFrom(assigned.nodeMap, comps, 1),
        nodeCount |-> assigned.nodeId]

\* buildNetlist with a node counter that is kept across calls: numbering goes
\* on from the node count of the stored last result.
buildNetlist_keepsNodeCounter(self) ==
    LET fresh == NetlistOf(self.components, self.wires)
    IN IF self.simulationResults = Null THEN fresh
       ELSE [fresh EXCEPT !.nodeCount = @ + self.simulationResults.netlist.nodeCount]

\* buildNetlist(): reads this.components and this.wires, and nothing else.
buildNetlist(self) == NetlistOf(self.components, self.wires)

(***************************************************************************)
(* findGroundReference                                                     *)
(***************************************************************************)
groundComponents(comps) == {i \in 1..Len(comps) : comps[i].type = "ground"}

NoGroundError == "No ground reference found. Please add a ground component."
NoNodeError == "Circuit must have at least one non-ground node"
SingularError == "Circuit equations are singular. Check for floating nodes or invalid connections."

\* findGroundReference that only rejects a circuit without any component.
findGroundReferenceThrows_emptyOnly(self) == self.components = << >>

\* TRUE when findGroundReference() throws: this.components holds no ground.
findGroundReferenceThrows(self) == groundComponents(self.components) = {}

(***************************************************************************)
(* Stamps: addResistor, addVoltageSource, addCapacitor, addInductor        *)
(***************************************************************************)
\* properties[name] || dflt, for a numeric property held as a rational
OrDefault(properties, name, dflt) ==
    IF name \notin DOMAIN properties THEN dflt
    ELSE IF properties[name][1] = 0 THEN dflt
    ELSE properties[name]

ZeroMatrix(n) == [r \in 1..n |-> [c \in 1..n |-> RZero]]
ZeroVector(n) == [r \in 1..n |-> RZero]

\* G[r-1][c-1] += v, for node ids r, c
AddG(G, r, c, v) == [G EXCEPT ![r][c] = RAdd(@, v)]
\* I[r-1] += v
AddI(I, r, v) == [I EXCEPT ![r] = RAdd(@, v)]

\* The stamp that subtracts the conductance from G[node1][node2] only.
StampConductance_oneOffDiagonal(G, node1, node2, conductance) ==
    LET G1 == IF node1 > 0 THEN AddG(G, node1, node1, conductance) ELSE G
        G2 == IF node2 > 0 THEN AddG(G1, node2, node2, conductance) ELSE G1
    IN IF node1 > 0 /\ node2 > 0
       THEN AddG(G2, node1, node2, RNeg(conductance))
       ELSE G2

\* Both diagonal terms and, when neither node is ground, both off-diagonal terms.
StampConductance(G, node1, node2, conductance) ==
    LET G1 == IF node1 > 0 THEN AddG(G, node1, node1, conductance) ELSE G
        G2 == IF node2 > 0 THEN AddG(G1, node2, node2, conductance) ELSE G1
    IN IF node1 > 0 /\ node2 > 0
       THEN AddG(AddG(G2, node1, node2, RNeg(conductance)), node2, node1, RNeg(conductance))
       ELSE G2

addResistor(sys, comp) ==
    LET resistance == OrDefault(comp.properties, "resistance", RInt(DefaultResistance))
        conductance == RDiv(RInt(1), resistance)
    IN [G |-> StampConductance(sys.G, comp.nodes[1], comp.nodes[2], conductance), I |-> sys.I]

addVoltageSource(sys, comp) ==
    LET nodePos == comp.nodes[1]
        nodeNeg == comp.nodes[2]
        voltage == OrDefault(comp.properties, "voltage", RInt(DefaultVoltage))
        big == RInt(LargeConductance)
        pos == IF nodePos > 0
               THEN [G |-> AddG(sys.G, nodePos, nodePos, big),
                     I |-> AddI(sys.I, nodePos, RMul(voltage, big))]
               ELSE sys
    IN IF nodeNeg > 0
       THEN [G |-> AddG(pos.G, nodeNeg, nodeNeg, big),
             I |-> AddI(pos.I, nodeNeg, RNeg(RMul(voltage, big)))]
       ELSE pos

\* A capacitor stamped as a conductance of 1000 between its nodes.
addCapacitor_asConductance(sys, comp) ==
    [G |-> StampConductance(sys.G, comp.nodes[1], comp.nodes[2], RInt(LargeConductance)),
     I |-> sys.I]

\* The method reads comp.nodes and the capacitance and writes nothing.
addCapacitor(sys, comp) == sys

addInductor(sys, comp) ==
    [G |-> StampConductance(sys.G, comp.nodes[1], comp.nodes[2], RInt(LargeConductance)),
     I |-> sys.I]

\* The switch on comp.type in solveCircuit.
Stamp(sys, comp) ==
    CASE comp.type = "resistor" -> addResistor(sys, comp)
      [] comp.type = "voltage" -> addVoltageSource(sys, comp)
      [] comp.type = "capacitor" -> addCapacitor(sys, comp)
      [] comp.type = "inductor" -> addInductor(sys, comp)
      [] OTHER -> sys

RECURSIVE StampFrom(_, _, _)
StampFrom(sys, elements, i) ==
    IF i > Len(elements) THEN sys
    ELSE StampFrom(Stamp(sys, elements[i]), elements, i + 1)

\* G and I after netlist.components.forEach, for n unknowns.
Assemble(netlist, n) ==
    StampFrom([G |-> ZeroMatrix(n), I |-> ZeroVector(n)], netlist.components, 1)

\* Bounds of the assembly loop taken alone.
MaxNodes == 2

\* system outside solveCircuit.
NoSystem == [n |-> 0, G |-> << >>, I |-> << >>, comp |-> Null, before |-> Null]

\* A netlist element, as buildNetlist pushes it.
Element(type, nodes, properties) ==
    [id |-> 1, type |-> type, nodes |-> nodes, properties |-> properties]

\* The properties an element of each type can carry: a set value, the value
\* 0, a negative resistance, and (after an import that leaves it out) no value.
ElementProperties(type) ==
    CASE type = "resistor" ->
            { [resistance |-> <<1, 500>>, tolerance |-> RInt(5), power |-> <<1, 4>>],
              [resistance |-> RZero, tolerance |-> RInt(5), power |-> <<1, 4>>],
              [resistance |-> <<-1, 500>>, tolerance |-> RInt(5), power |-> <<1, 4>>],
              [tolerance |-> RInt(5), power |-> <<1, 4>>] }
      [] type = "voltage" ->
            { [voltage |-> RInt(9), frequency |-> RZero, phase |-> RZero],
              [voltage |-> RZero, frequency |-> RZero, phase |-> RZero],
              [frequency |-> RZero, phase |-> RZero] }
      [] type = "capacitor" -> { [capacitance |-> <<1, 1000000>>, voltage |-> RInt(25)] }
      [] OTHER -> { [inductance |-> <<1, 1000>>, current |-> RInt(1)] }

\* The elements a netlist of n + 1 nodes can hold.
Elements(n) ==
    UNION { { Element(type, <<a, b>>, properties) :
                a \in 0..n, b \in 0..n, properties \in ElementProperties(type) } :
            type \in {"resistor", "voltage", "capacitor", "inductor"} }

\* The elements the loop has stamped before the one looked at: none, or a
\* resistor and a source on the first and the last node.
PriorElements(n) ==
    { << >>,
      << Element("resistor", <<1, n>>, [resistance |-> <<1, 250>>, tolerance |-> RInt(5), power |-> <<1, 4>>]),
         Element("voltage", <<n, 0>>, [voltage |-> RInt(3), frequency |-> RZero, phase |-> RZero]) >> }

\* One iteration of netlist.components.forEach in solveCircuit.
StampElement ==
    \E comp \in Elements(system.n) :
        /\ system.comp = Null
        /\ system' = [n |-> system.n,
                      G |-> Stamp([G |-> system.G, I |-> system.I], comp).G,
                      I |-> Stamp([G |-> system.G, I |-> system.I], comp).I,
                      comp |-> comp,
                      before |-> [G |-> system.G, I |-> system.I]]
        /\ UNCHANGED <<circuit, analyzer, ret, reply, lastRun, solver, editorVars>>

(***************************************************************************)
(* solveLinearSystem: Gaussian elimination with partial pivoting           *)
(***************************************************************************)
\* Math.abs(a) < 1e-10
BelowPivotThreshold(a) ==
    LET q == (a[2] \div PivotScale) \div PivotScale
        exact == a[2] % PivotScale = 0 /\ (a[2] \div PivotScale) % PivotScale = 0
    IN Abs(a[1]) < q \/ (Abs(a[1]) = q /\ ~exact)

\* A solver without pivoting: the row of the diagonal entry is kept.
maxRow_noPivoting(aug, i, n) == i

\* The row the pivot search ends on: the first row of i..n whose entry in
\* column i is largest in absolute value.
maxRow(aug, i, n) ==
    CHOOSE k \in i..n :
        /\ \A o \in i..n : RLeq(RAbs(aug[o][i]), RAbs(aug[k][i]))
        /\ \A o \in i..(k - 1) : RLess(RAbs(aug[o][i]), RAbs(aug[k][i]))

SwapRows(aug, i, k) == [aug EXCEPT ![i] = aug[k], ![k] = aug[i]]

\* augmented[k][j] -= factor * augmented[i][j] for j = i..n, for every row k > i
EliminateColumn(aug, i, n) ==
    [k \in 1..n |->
        IF k <= i THEN aug[k]
        ELSE LET factor == RDiv(aug[k][i], aug[i][i])
             IN [j \in 1..(n + 1) |->
                    IF j < i THEN aug[k][j]
                    ELSE RSub(aug[k][j], RMul(factor, aug[i][j]))]]

\* One pass of the outer loop, for column i, and the passes after it.
RECURSIVE ForwardEliminate(_, _, _)
RECURSIVE EliminateFrom(_, _, _)

\* After the swap: the singular check, then the elimination of column i.
EliminateFrom(swapped, i, n) ==
    IF BelowPivotThreshold(swapped[i][i])
    THEN [singular |-> TRUE, augmented |-> swapped]
    ELSE ForwardEliminate(EliminateColumn(swapped, i, n), i + 1, n)

ForwardEliminate(aug, i, n) ==
    IF i > n THEN [singular |-> FALSE, augmented |-> aug]
    ELSE EliminateFrom(SwapRows(aug, i, maxRow(aug, i, n)), i, n)

RECURSIVE RowTail(_, _, _, _, _)
\* x[i] -= augmented[i][j] * x[j] for j = i+1..n
RowTail(aug, x, i, j, acc) ==
    IF j > Len(aug) THEN acc
    ELSE RowTail(aug, x, i, j + 1, RSub(acc, RMul(aug[i][j], x[j])))

RECURSIVE BackSubstitute(_, _, _)
BackSubstitute(aug, x, i) ==
    IF i < 1 THEN x
    ELSE LET n == Len(aug)
             xi == RDiv(RowTail(aug, x, i, i + 1, aug[i][n + 1]), aug[i][i])
         IN BackSubstitute(aug, [x EXCEPT ![i] = xi], i - 1)

\* The throw, or the back substitution, on the eliminated matrix.
SolveEliminated(fwd, n) ==
    IF fwd.singular THEN [singular |-> TRUE, x |-> << >>]
    ELSE [singular |-> FALSE, x |-> BackSubstitute(fwd.augmented, ZeroVector(n), n)]

\* [singular |-> TRUE] when it throws, else the solution x.
solveLinearSystem(A, b) ==
    SolveEliminated(ForwardEliminate([i \in 1..Len(A) |-> A[i] \o <<b[i]>>], 1, Len(A)), Len(A))

\* Bound of the solver taken alone: the number of unknowns.
MaxUnknowns == 2

\* solver outside solveLinearSystem.
NoSolver == [n |-> 0, augmented |-> << >>, i |-> 0, status |-> "idle", pivot |-> Null, x |-> << >>]

\* The entries of the systems the solver is given, and a small entry, 1e-9,
\* that is not below the threshold.
MatrixEntries == {RZero, RInt(1), RInt(-2)}
SmallEntry == <<1, 1000000000>>

\* const augmented = A.map((row, i) => [...row, b[i]]), for every A of n rows
\* over MatrixEntries and every diagonal A over SmallEntry, with b = (1, .., 1).
AugmentedSystems(n) ==
    { [r \in 1..n |-> A[r] \o <<RInt(1)>>] : A \in [1..n -> [1..n -> MatrixEntries]] }
    \cup { [r \in 1..n |-> [c \in 1..(n + 1) |->
                                IF c = r THEN d[r] ELSE IF c = n + 1 THEN RInt(1) ELSE RZero]] :
             d \in [1..n -> {RZero, SmallEntry}] }

\* One pass of the outer loop of the forward elimination, for column solver.i:
\* the pivot search, the swap, the singular check and the elimination.
PivotColumn ==
    /\ solver.status = "pivoting"
    /\ \E swapped \in {SwapRows(solver.augmented, solver.i,
                                 maxRow(solver.augmented, solver.i, solver.n))} :
          solver' =
              [solver EXCEPT
                  !.augmented = IF BelowPivotThreshold(swapped[solver.i][solver.i]) THEN swapped
                                ELSE EliminateColumn(swapped, solver.i, solver.n),
                  !.i = IF BelowPivotThreshold(swapped[solver.i][solver.i]) THEN @ ELSE @ + 1,
                  !.status = IF BelowPivotThreshold(swapped[solver.i][solver.i]) THEN "singular"
                             ELSE IF solver.i = solver.n THEN "eliminated" ELSE "pivoting",
                  !.pivot = [column |-> solver.i, before |-> solver.augmented,
                             swapped |-> swapped]]
    /\ UNCHANGED <<circuit, analyzer, ret, reply, lastRun, system, editorVars>>

\* The back substitution and the return of x.
BackSubstitution ==
    /\ solver.status = "eliminated"
    /\ solver' = [solver EXCEPT
                      !.status = "solved",
                      !.x = BackSubstitute(solver.augmented, ZeroVector(solver.n), solver.n)]
    /\ UNCHANGED <<circuit, analyzer, ret, reply, lastRun, system, editorVars>>

(***************************************************************************)
(* calculateComponentValues                                                *)
(***************************************************************************)
\* A JavaScript number that may be NaN or infinite.
Finite(r) == [kind |-> "finite", val |-> r]
NaN == [kind |-> "NaN", val |-> RZero]
Infinity(sign) == [kind |-> "Infinity", val |-> RInt(sign)]

\* The lookup that takes the node id for a place of the vector counted from
\* one: node 1 reads the ground entry.
VoltageAt_countsFromOne(nodeVoltages, node) ==
    IF node \in DOMAIN nodeVoltages THEN nodeVoltages[node] ELSE RZero

\* nodeVoltages[node] || 0
VoltageAt(nodeVoltages, node) ==
    IF node + 1 \in DOMAIN nodeVoltages THEN nodeVoltages[node + 1] ELSE RZero

\* voltage / comp.properties.resistance
ResistorCurrent(voltage, properties) ==
    IF "resistance" \notin DOMAIN properties THEN NaN
    ELSE IF properties.resistance[1] = 0
         THEN IF voltage[1] = 0 THEN NaN ELSE Infinity(IF voltage[1] < 0 THEN -1 ELSE 1)
    ELSE Finite(RDiv(voltage, properties.resistance))

\* voltage * current
TimesVoltage(voltage, current) ==
    CASE current.kind = "finite" -> Finite(RMul(voltage, current.val))
      [] current.kind = "NaN" -> NaN
      [] OTHER -> IF voltage[1] = 0 THEN NaN
                  ELSE Infinity(IF (voltage[1] < 0) = (current.val[1] < 0) THEN 1 ELSE -1)

componentValues(nodeVoltages, comp) ==
    LET v1 == VoltageAt(nodeVoltages, comp.nodes[1])
        v2 == VoltageAt(nodeVoltages, comp.nodes[2])
        voltage == RSub(v1, v2)
        current ==
            CASE comp.type = "resistor" -> ResistorCurrent(voltage, comp.properties)
              [] comp.type = "inductor" -> Finite(RMul(voltage, RInt(InductorPerOhm)))
              [] OTHER -> Finite(RZero)
        power ==
            CASE comp.type \in {"resistor", "inductor"} -> TimesVoltage(voltage, current)
              [] comp.type = "voltage" ->
                   IF "voltage" \in DOMAIN comp.properties THEN Finite(RZero) ELSE NaN
              [] OTHER -> Finite(RZero)
    IN [voltage |-> voltage, current |-> current, power |-> power, nodeVoltages |-> <<v1, v2>>]

\* The netlist with comp.simulationResults stored in every element.
calculateComponentValues(results) ==
    [results EXCEPT !.netlist.components =
        [i \in 1..Len(@) |->
            [id |-> @[i].id, type |-> @[i].type, nodes |-> @[i].nodes,
             properties |-> @[i].properties,
             simulationResults |-> componentValues(results.nodeVoltages, @[i])]]]

(***************************************************************************)
(* solveCircuit                                                            *)
(***************************************************************************)
\* The vector without the entry of the ground node.
allVoltages_noGroundEntry(nodeVoltages) == nodeVoltages

\* const allVoltages = [0, ...nodeVoltages]
allVoltages(nodeVoltages) == <<RZero>> \o nodeVoltages

\* What solveCircuit does with the solver's outcome.
SolvedCircuit(netlist, sys, solved) ==
    IF solved.singular
    THEN [error |-> SingularError,
          stages |-> <<"solveCircuit", "assemble", "solveLinearSystem">>]
    ELSE [error |-> "",
          stages |-> <<"solveCircuit", "assemble", "solveLinearSystem">>,
          nodeVoltages |-> allVoltages(solved.x),
          netlist |-> netlist,
          matrix |-> sys.G,
          current |-> sys.I]

\* solveCircuit once G and I are assembled.
SolveAssembled(netlist, sys) == SolvedCircuit(netlist, sys, solveLinearSystem(sys.G, sys.I))

\* [error |-> message] when it throws, else the results object.
solveCircuit(netlist) ==
    IF netlist.nodeCount - 1 <= 0
    THEN [error |-> NoNodeError, stages |-> <<"solveCircuit">>]
    ELSE SolveAssembled(netlist, Assemble(netlist, netlist.nodeCount - 1))

(***************************************************************************)
(* simulate                                                                *)
(***************************************************************************)
GroundNodeZero == [node |-> 0]

Failure(error, stages, call) ==
    [success |-> FALSE, error |-> error, message |-> "Circuit simulation failed: " \o error,
     results |-> Null, stages |-> stages, call |-> call]

\* The value simulate(components, wires) returns once this.components and
\* this.wires are assigned (self), with the stages the call ran in order and
\* the arguments of the call (stages and call are bookkeeping of the model,
\* not fields of the returned value).
simulateOutcome(call, noGround, solved) ==
    IF noGround
    THEN Failure(NoGroundError, <<"buildNetlist", "findGroundReference">>, call)
    ELSE IF solved.error # ""
         THEN Failure(solved.error,
                      <<"buildNetlist", "findGroundReference">> \o solved.stages, call)
    ELSE [success |-> TRUE, error |-> "",
          message |-> "Circuit simulation completed successfully",
          results |-> calculateComponentValues(
                         [nodeVoltages |-> solved.nodeVoltages, netlist |-> solved.netlist,
                          matrix |-> solved.matrix, current |-> solved.current]),
          stages |-> <<"buildNetlist", "findGroundReference">> \o solved.stages
                     \o <<"calculateComponentValues">>,
          call |-> call]

\* The try block of simulate, in the order of its steps.
simulateReturn(self) ==
    simulateOutcome([components |-> self.components, wires |-> self.wires],
                    findGroundReferenceThrows(self),
                    solveCircuit(buildNetlist(self)))

Ran(r, stage) == \E i \in 1..Len(r.stages) : r.stages[i] = stage

\* simulate that overwrites the stored result on every call, failed or not.
simulateFields_clearsOnFailure(self, r) ==
    [self EXCEPT
        !.groundNode = IF r.error # NoGroundError THEN [node |-> 0] ELSE @,
        !.simulationResults = r.results,
        !.isSimulating = IF r.success THEN TRUE ELSE @]

\* The analyzer's fields when the call returns r: groundNode is set once
\* findGroundReference has passed, the result and the flag only on success.
simulateFields(self, r) ==
    [self EXCEPT
        !.groundNode = IF r.error # NoGroundError THEN GroundNodeZero ELSE @,
        !.simulationResults = IF r.success THEN r.results ELSE @,
        !.isSimulating = IF r.success THEN TRUE ELSE @]

\* analyzer.simulate(c.components, c.wires)
Simulate(c) ==
    \E r \in {simulateReturn([analyzer EXCEPT !.components = c.components, !.wires = c.wires])} :
        /\ analyzer' = simulateFields([analyzer EXCEPT !.components = c.components,
                                                      !.wires = c.wires], r)
        /\ ret' = r
        /\ lastRun' = IF r.success THEN r.results ELSE lastRun
        /\ UNCHANGED <<circuit, reply, assemblyVars, editorVars>>

\* new CircuitAnalyzer()
NewAnalyzer ==
    [nodes |-> EmptyMap, components |-> << >>, wires |-> << >>, groundNode |-> Null,
     simulationResults |-> Null, isSimulating |-> FALSE]

\* reset that leaves the stored result in place.
reset_keepsResults(self) ==
    [nodes |-> EmptyMap, components |-> << >>, wires |-> << >>,
     groundNode |-> Null, simulationResults |-> self.simulationResults, isSimulating |-> FALSE]

\* The analyzer's fields when reset() returns.
reset(self) ==
    [nodes |-> EmptyMap, components |-> << >>, wires |-> << >>,
     groundNode |-> Null, simulationResults |-> Null, isSimulating |-> FALSE]

\* analyzer.reset()
Reset ==
    /\ analyzer' = reset(analyzer)
    /\ lastRun' = Null
    /\ UNCHANGED <<circuit, ret, reply, assemblyVars, editorVars>>

\* ret before any call.
NoReturn ==
    [success |-> FALSE, error |-> "", message |-> "", results |-> Null, stages |-> << >>,
     call |-> Null]

(***************************************************************************)
(* Queries: getComponentResults, validateCircuit, getAnalysisReport        *)
(***************************************************************************)
FixedDigits3 == 3     \* toFixed(3)
FixedDigits6 == 6     \* toFixed(6)
HighCurrentAmps == 10 \* validateCircuit: Math.abs(current) > 10

\* The digits of rem/den after the decimal point, and the remainder left.
RECURSIVE FractionDigits(_, _, _, _)
FractionDigits(rem, den, k, acc) ==
    IF k = 0 THEN [digits |-> acc, rem |-> rem]
    ELSE FractionDigits((rem * 10) % den, den, k - 1, Append(acc, (rem * 10) \div den))

\* Adds one unit in the last place; carry is 1 when every digit was 9.
RECURSIVE AddOneAt(_, _)
AddOneAt(digits, i) ==
    IF i = 0 THEN [digits |-> digits, carry |-> 1]
    ELSE IF digits[i] = 9 THEN AddOneAt([digits EXCEPT ![i] = 0], i - 1)
    ELSE [digits |-> [digits EXCEPT ![i] = @ + 1], carry |-> 0]

\* Number.prototype.toFixed(k) of a finite number: the decimal string, as its
\* sign, integer part and k fraction digits (nearest, ties away from zero).
toFixed(r, k) ==
    LET n == Abs(r[1])
        d == r[2]
        cut == FractionDigits(n % d, d, k, << >>)
        up == IF 2 * cut.rem >= d THEN AddOneAt(cut.digits, k)
              ELSE [digits |-> cut.digits, carry |-> 0]
    IN [text |-> "", negative |-> r[1] < 0, int |-> (n \div d) + up.carry, frac |-> up.digits]

\* toFixed(k) of a number that may be NaN or infinite.
NumberToFixed(v, k) ==
    IF v.kind = "finite" THEN toFixed(v.val, k)
    ELSE [text |-> v.kind, negative |-> v.val[1] < 0, int |-> 0, frac |-> << >>]

getComponentResults(self, componentId) ==
    IF self.simulationResults = Null THEN Null
    ELSE LET comps == self.simulationResults.netlist.components
             found == {i \in 1..Len(comps) : comps[i].id = componentId}
         IN IF found = {} THEN Null
            ELSE comps[CHOOSE i \in found : \A j \in found : i <= j].simulationResults

\* Math.abs(v) > limit, for a number that may be NaN or infinite
AbsExceeds(v, limit) ==
    CASE v.kind = "finite" -> RLess(limit, RAbs(v.val))
      [] v.kind = "NaN" -> FALSE
      [] OTHER -> TRUE

\* comp.type === 'resistor' && comp.properties.power
HasPowerRating(comp) ==
    /\ comp.type = "resistor"
    /\ "power" \in DOMAIN comp.properties
    /\ comp.properties.power[1] # 0

\* The issues one netlist element adds, in the order the code pushes them.
ComponentIssues(comp) ==
    (IF AbsExceeds(comp.simulationResults.current, RInt(HighCurrentAmps))
     THEN << [issue |-> "High current", type |-> comp.type, id |-> comp.id,
              value |-> NumberToFixed(comp.simulationResults.current, FixedDigits3),
              rating |-> RZero] >>
     ELSE << >>)
    \o
    (IF HasPowerRating(comp)
     THEN IF AbsExceeds(comp.simulationResults.power, comp.properties.power)
          THEN << [issue |-> "Power rating exceeded", type |-> comp.type, id |-> comp.id,
                   value |-> NumberToFixed(comp.simulationResults.power, FixedDigits3),
                   rating |-> comp.properties.power] >>
          ELSE << >>
     ELSE << >>)

RECURSIVE IssuesFrom(_, _)
IssuesFrom(comps, i) ==
    IF i > Len(comps) THEN << >>
    ELSE ComponentIssues(comps[i]) \o IssuesFrom(comps, i + 1)

NotSimulatedIssue ==
    [issue |-> "Circuit not simulated yet", type |-> "", id |-> 0,
     value |-> toFixed(RZero, 0), rating |-> RZero]

validateCircuit(self) ==
    IF self.simulationResults = Null
    THEN [isValid |-> FALSE, issues |-> <<NotSimulatedIssue>>]
    ELSE LET issues == IssuesFrom(self.simulationResults.netlist.components, 1)
         IN [isValid |-> Len(issues) = 0, issues |-> issues]

\* comp.type.toUpperCase()
toUpperCase(type) ==
    CASE type = "resistor" -> "RESISTOR"
      [] type = "voltage" -> "VOLTAGE"
      [] type = "capacitor" -> "CAPACITOR"
      [] type = "inductor" -> "INDUCTOR"
      [] OTHER -> "GROUND"

\* The report, as the values its lines are printed from.
getAnalysisReport(self) ==
    IF self.simulationResults = Null
    THEN [text |-> "No simulation results available"]
    ELSE LET res == self.simulationResults
             comps == res.netlist.components
             shown == Ascending({i \in 1..Len(comps) : comps[i].type # "ground"})
             validation == validateCircuit(self)
         IN [text |-> "=== Circuit Analysis Report ===",
             nodeVoltages |->
                 [i \in 1..Len(res.nodeVoltages) |->
                     [node |-> i - 1, voltage |-> toFixed(res.nodeVoltages[i], FixedDigits3)]],
             components |->
                 [k \in 1..Len(shown) |->
                     [type |-> toUpperCase(comps[shown[k]].type), id |-> comps[shown[k]].id,
                      voltage |-> toFixed(comps[shown[k]].simulationResults.voltage, FixedDigits3),
                      current |-> NumberToFixed(comps[shown[k]].simulationResults.current, FixedDigits6),
                      power |-> NumberToFixed(comps[shown[k]].simulationResults.power, FixedDigits6)]],
             status |-> IF validation.isValid THEN "VALID" ELSE "ISSUES FOUND",
             issues |-> validation.issues]

\* A query that drops the stored result once it has reported on it.
queryFields_consumesResult(self) == [self EXCEPT !.simulationResults = Null]

\* The analyzer's fields when validateCircuit or getAnalysisReport returns:
\* neither method assigns a field of this.
queryFields(self) == self

\* reply before any query.
NoReply == [op |-> "", value |-> Null, afterFailure |-> FALSE]

\* analyzer.validateCircuit()
ValidateCircuit ==
    /\ reply' = [op |-> "validateCircuit", value |-> validateCircuit(analyzer),
                 afterFailure |-> ret.stages # << >> /\ ~ret.success]
    /\ analyzer' = queryFields(analyzer)
    /\ UNCHANGED <<circuit, ret, lastRun, assemblyVars, editorVars>>

\* analyzer.getAnalysisReport()
GetAnalysisReport ==
    /\ reply' = [op |-> "getAnalysisReport", value |-> getAnalysisReport(analyzer),
                 afterFailure |-> ret.stages # << >> /\ ~ret.success]
    /\ analyzer' = queryFields(analyzer)
    /\ UNCHANGED <<circuit, ret, lastRun, assemblyVars, editorVars>>

(***************************************************************************)
(* Circuits                                                                *)
(***************************************************************************)
Circuit(comps, ws) == [components |-> comps, wires |-> ws]

\* Component.initializeProperties, with the value the caller then sets.
ResistorProperties(ohms) ==
    [resistance |-> RInt(ohms), tolerance |-> RInt(5), power |-> <<1, 4>>]
\* A resistor of m milliohm ("1m"): its conductance is commensurable with the
\* 1000 S stamps of sources and inductors, which keeps the exact rationals of
\* coupled systems small.
MilliohmProperties(m) ==
    [resistance |-> Rat(m, 1000), tolerance |-> RInt(5), power |-> <<1, 4>>]
VoltageProperties(volts) == [voltage |-> RInt(volts), frequency |-> RZero, phase |-> RZero]
CapacitorProperties == [capacitance |-> <<1, 1000000>>, voltage |-> RInt(25)]
InductorProperties == [inductance |-> <<1, 1000>>, current |-> RInt(1)]
GroundProperties == [k \in {} |-> RZero]

At(x, y) == Vector2(U(x), U(y))

\* loadExampleCircuit: 5 V battery, 1 kOhm resistor and ground, wired.
ExampleCircuit ==
    LET battery == Component(1, "voltage", At(200, 200), 0, VoltageProperties(5))
        resistor == Component(2, "resistor", At(400, 200), 0, ResistorProperties(1000))
        ground == Component(3, "ground", At(480, 200), 0, GroundProperties)
        batteryPoints == getConnectionPoints(battery)
        resistorPoints == getConnectionPoints(resistor)
        groundPoints == getConnectionPoints(ground)
        corner1 == Vector2(batteryPoints[1].x, U(300))
        corner2 == Vector2(groundPoints[1].x, U(300))
    IN Circuit(<<battery, resistor, ground>>,
               << Wire(batteryPoints[2], resistorPoints[1]),
                  Wire(resistorPoints[2], groundPoints[1]),
                  Wire(batteryPoints[1], corner1),
                  Wire(corner1, corner2),
                  Wire(corner2, groundPoints[1]) >>)

\* createVoltageDividerCircuit: 9 V battery, 2 kOhm and 1 kOhm in series, ground.
VoltageDividerCircuit ==
    LET battery == Component(1, "voltage", At(150, 200), 1, VoltageProperties(9))
        r1 == Component(2, "resistor", At(300, 150), 0, ResistorProperties(2000))
        r2 == Component(3, "resistor", At(300, 250), 0, ResistorProperties(1000))
        ground == Component(4, "ground", At(150, 300), 0, GroundProperties)
        batteryPoints == getConnectionPoints(battery)
        r1Points == getConnectionPoints(r1)
        r2Points == getConnectionPoints(r2)
        groundPoints == getConnectionPoints(ground)
    IN Circuit(<<battery, r1, r2, ground>>,
               << Wire(batteryPoints[1], r1Points[1]),
                  Wire(r1Points[2], r2Points[1]),
                  Wire(r2Points[2], batteryPoints[2]),
                  Wire(batteryPoints[2], groundPoints[1]) >>)

EmptyCircuit == Circuit(<< >>, << >>)

\* The placements a drawn circuit is made of: kind, centre, rotation, value.
\* Terminals of neighbouring placements coincide or lie within tolerance.
Placements ==
    { [type |-> "ground", position |-> At(0, 0), rotation |-> 0, properties |-> GroundProperties],
      [type |-> "ground", position |-> At(120, 0), rotation |-> 0, properties |-> GroundProperties],
      [type |-> "resistor", position |-> At(30, 0), rotation |-> 0, properties |-> MilliohmProperties(1)],
      [type |-> "resistor", position |-> At(90, 0), rotation |-> 0, properties |-> MilliohmProperties(2)],
      [type |-> "resistor", position |-> At(-45, 0), rotation |-> 0, properties |-> MilliohmProperties(1)],
      [type |-> "resistor", position |-> At(0, 30), rotation |-> 1, properties |-> MilliohmProperties(2)],
      [type |-> "voltage", position |-> At(25, 0), rotation |-> 2, properties |-> VoltageProperties(9)],
      [type |-> "capacitor", position |-> At(90, 0), rotation |-> 0, properties |-> CapacitorProperties],
      [type |-> "inductor", position |-> At(90, 0), rotation |-> 0, properties |-> InductorProperties] }

\* The wires a drawn circuit is made of: a long wire between two terminals,
\* a wire shorter than the tolerance, and a wire starting one coordinate step
\* beyond the tolerance of the point (0, 0).
WireChoices ==
    { Wire(At(60, 0), At(120, 0)),
      Wire(At(0, 0), At(10, 0)),
      Wire(Vector2(U(-15) - 1, 0), At(-200, 0)) }

\* Sequences of distinct elements of S, of length at most n.
RECURSIVE DistinctSeqs(_, _)
DistinctSeqs(S, n) ==
    IF n = 0 THEN { << >> }
    ELSE LET shorter == DistinctSeqs(S, n - 1)
             longest == {q \in shorter : Len(q) = n - 1}
         IN shorter \cup
            UNION { {Append(q, e) : e \in S \ {q[i] : i \in 1..Len(q)}} : q \in longest }

\* Components get their ids in placement order.
Numbered(ps) ==
    [i \in 1..Len(ps) |->
        Component(i, ps[i].type, ps[i].position, ps[i].rotation, ps[i].properties)]

Circuits ==
    { Circuit(Numbered(ps), ws) :
        ps \in DistinctSeqs(Placements, MaxComponents), ws \in DistinctSeqs(WireChoices, MaxWires) }

\* The circuits simulate is called with in the engine's life cycle: the
\* built-in ones and a few drawn ones, failing and succeeding.
Drawn(ps, ws) == Circuit(Numbered(ps), ws)
GroundAt0 == [type |-> "ground", position |-> At(0, 0), rotation |-> 0, properties |-> GroundProperties]
GroundAt120 == [type |-> "ground", position |-> At(120, 0), rotation |-> 0, properties |-> GroundProperties]
ResistorAt30 == [type |-> "resistor", position |-> At(30, 0), rotation |-> 0, properties |-> MilliohmProperties(1)]
ResistorAt90 == [type |-> "resistor", position |-> At(90, 0), rotation |-> 0, properties |-> MilliohmProperties(2)]
VoltageAt25 == [type |-> "voltage", position |-> At(25, 0), rotation |-> 2, properties |-> VoltageProperties(9)]
CapacitorAt90 == [type |-> "capacitor", position |-> At(90, 0), rotation |-> 0, properties |-> CapacitorProperties]
InductorAt90 == [type |-> "inductor", position |-> At(90, 0), rotation |-> 0, properties |-> InductorProperties]

NamedCircuits ==
    { ExampleCircuit, VoltageDividerCircuit, EmptyCircuit,
      Drawn(<<GroundAt0>>, << >>),
      Drawn(<<GroundAt0>>, <<Wire(At(60, 0), At(120, 0))>>),
      Drawn(<<ResistorAt30>>, << >>),
      Drawn(<<GroundAt0, ResistorAt30>>, << >>),
      Drawn(<<GroundAt0, ResistorAt90>>, << >>),
      Drawn(<<GroundAt0, VoltageAt25>>, << >>),
      Drawn(<<GroundAt0, VoltageAt25, ResistorAt90>>, << >>),
      Drawn(<<GroundAt0, VoltageAt25, ResistorAt90, GroundAt120>>, << >>),
      Drawn(<<GroundAt0, VoltageAt25, InductorAt90>>, << >>),
      Drawn(<<GroundAt0, VoltageAt25, CapacitorAt90>>, << >>),
      Drawn(<<GroundAt120, VoltageAt25>>, << >>),
      Drawn(<<GroundAt120, ResistorAt90>>, << >>),
      Drawn(<<GroundAt120, InductorAt90>>, << >>),
      Drawn(<<GroundAt0, VoltageAt25, InductorAt90, GroundAt120>>, << >>),
      Drawn(<<GroundAt0, ResistorAt30, ResistorAt90>>, <<Wire(At(60, 0), At(120, 0))>>) }

(***************************************************************************)
(* The editor: CircuitSimulator (js/main.js) and InputHandler              *)
(***************************************************************************)
\* Objects.  A component or wire object is known by its place in
\* this.components or this.wires.  selectedComponents holds references: to an
\* object still in those arrays (live, with its kind and index), or to an
\* object that was dropped from them when the arrays were replaced (not
\* live).  An object's selected flag is set exactly while selectedComponents
\* holds it.  A wire's id is read by nothing and is left out.
HistoryLimit == 50    \* if (this.history.length > 50)
gridSize == 20        \* Renderer: this.gridSize = 20
MinWireLength == 5    \* handleWireTool: distance(snappedPos) > 5
WireThreshold == 5    \* Wire.containsPoint(point, threshold = 5)

\* Bounds of the editor: the snapshots the history may hold before the edits
\* stop, and the ids generateId may return.
MaxSnapshots == 3
MaxIds == 4

Tools == {"select", "wire", "resistor", "capacitor", "inductor", "voltage", "ground"}

\* Utils.snapToGrid(pos, gridSize)
snapToGrid(pos) ==
    Vector2(((2 * pos.x + U(gridSize)) \div (2 * U(gridSize))) * U(gridSize),
            ((2 * pos.y + U(gridSize)) \div (2 * U(gridSize))) * U(gridSize))

\* Component.initializeProperties
initializeProperties(type) ==
    CASE type = "resistor" -> ResistorProperties(1000)
      [] type = "capacitor" -> CapacitorProperties
      [] type = "inductor" -> InductorProperties
      [] type = "voltage" -> VoltageProperties(5)
      [] OTHER -> GroundProperties

\* Component.getSize, in design units
getSize(type) ==
    CASE type = "resistor" -> [width |-> 80, height |-> 20]
      [] type = "capacitor" -> [width |-> 60, height |-> 40]
      [] type = "inductor" -> [width |-> 80, height |-> 30]
      [] type = "voltage" -> [width |-> 50, height |-> 50]
      [] type = "ground" -> [width |-> 30, height |-> 30]
      [] OTHER -> [width |-> 40, height |-> 20]

\* Component.containsPoint: Utils.pointInRect(point, this.getBounds())
ComponentContainsPoint(c, p) ==
    /\ 2 * p.x >= 2 * c.position.x - U(getSize(c.type).width)
    /\ 2 * p.x <= 2 * c.position.x + U(getSize(c.type).width)
    /\ 2 * p.y >= 2 * c.position.y - U(getSize(c.type).height)
    /\ 2 * p.y <= 2 * c.position.y + U(getSize(c.type).height)

\* Utils.pointNearLine once A, B, C, D, dot and lenSq are computed.  The
\* distance is compared on its square; a cross product too large to square
\* belongs to a point further than the threshold from any wire of the model.
NearLine(A, B, C, D, dot, lenSq) ==
    IF lenSq = 0 \/ dot < 0 THEN A * A + B * B <= U(WireThreshold) * U(WireThreshold)
    ELSE IF dot > lenSq
         THEN (A - C) * (A - C) + (B - D) * (B - D) <= U(WireThreshold) * U(WireThreshold)
    ELSE /\ Abs(A * D - B * C) <= 40000
         /\ (A * D - B * C) * (A * D - B * C) <= U(WireThreshold) * U(WireThreshold) * lenSq

\* Wire.containsPoint(point)
WireContainsPoint(w, p) ==
    NearLine(p.x - w.startPoint.x, p.y - w.startPoint.y,
             w.endPoint.x - w.startPoint.x, w.endPoint.y - w.startPoint.y,
             (p.x - w.startPoint.x) * (w.endPoint.x - w.startPoint.x)
                 + (p.y - w.startPoint.y) * (w.endPoint.y - w.startPoint.y),
             (w.endPoint.x - w.startPoint.x) * (w.endPoint.x - w.startPoint.x)
                 + (w.endPoint.y - w.startPoint.y) * (w.endPoint.y - w.startPoint.y))

\* A reference to the object at place index of this.components or this.wires.
Ref(kind, index) == [live |-> TRUE, kind |-> kind, index |-> index]
\* The same reference once the object is no longer in the arrays.
Dropped(ref) == [live |-> FALSE, kind |-> ref.kind, index |-> 0]

Max(S) == CHOOSE a \in S : \A b \in S : b <= a

\* InputHandler.findComponentAt: the last component holding the point, else
\* the last wire near it, else null.
findComponentAt(c, p) ==
    IF \E i \in 1..Len(c.components) : ComponentContainsPoint(c.components[i], p)
    THEN Ref("component", Max({i \in 1..Len(c.components) : ComponentContainsPoint(c.components[i], p)}))
    ELSE IF \E i \in 1..Len(c.wires) : WireContainsPoint(c.wires[i], p)
    THEN Ref("wire", Max({i \in 1..Len(c.wires) : WireContainsPoint(c.wires[i], p)}))
    ELSE Null

\* Component.toJSON / Component.fromJSON
ComponentToJSON(c) ==
    [id |-> c.id, type |-> c.type, position |-> [x |-> c.position.x, y |-> c.position.y],
     rotation |-> c.rotation, properties |-> c.properties]
ComponentFromJSON(data) ==
    [Component(0, data.type, Vector2(data.position.x, data.position.y), data.rotation,
               initializeProperties(data.type))
        EXCEPT !.id = data.id, !.properties = data.properties]

\* Wire.toJSON / Wire.fromJSON
WireToJSON(w) ==
    [startPoint |-> [x |-> w.startPoint.x, y |-> w.startPoint.y],
     endPoint |-> [x |-> w.endPoint.x, y |-> w.endPoint.y]]
WireFromJSON(data) ==
    Wire(Vector2(data.startPoint.x, data.startPoint.y), Vector2(data.endPoint.x, data.endPoint.y))

\* The state object of saveState (Utils.deepClone copies it; a value is its own copy).
Snapshot(c) ==
    [components |-> [i \in 1..Len(c.components) |-> ComponentToJSON(c.components[i])],
     wires |-> [i \in 1..Len(c.wires) |-> WireToJSON(c.wires[i])]]

\* The components and wires loadState builds from a state object.
Restored(state) ==
    [components |-> [i \in 1..Len(state.components) |-> ComponentFromJSON(state.components[i])],
     wires |-> [i \in 1..Len(state.wires) |-> WireFromJSON(state.wires[i])]]

\* The history fields before the constructor's first saveState.
NewApp == [history |-> << >>, historyIndex |-> -1]

\* new InputHandler(canvas, renderer)
NewInput ==
    [selectedTool |-> "select", isDrawingWire |-> FALSE, wireStartPoint |-> Null,
     selectedComponents |-> << >>, isDragging |-> FALSE]

\* A history that keeps its oldest 50 snapshots and drops the one just saved.
Limited_dropsNewest(pushed, index) ==
    IF Len(pushed) > HistoryLimit
    THEN [history |-> SubSeq(pushed, 1, HistoryLimit), historyIndex |-> index - 1]
    ELSE [history |-> pushed, historyIndex |-> index]

\* "Limit history size": history.shift() and historyIndex-- beyond 50 snapshots.
Limited(pushed, index) ==
    IF Len(pushed) > HistoryLimit
    THEN [history |-> Tail(pushed), historyIndex |-> index - 1]
    ELSE [history |-> pushed, historyIndex |-> index]

\* saveState without the slice: the snapshots ahead of the index are kept.
Saved_keepsRedo(a, c) ==
    Limited(Append(a.history, Snapshot(c)), a.historyIndex + 1)

\* The history fields after saveState() of the circuit c.
Saved(a, c) ==
    Limited(Append(SubSeq(a.history, 1, a.historyIndex + 1), Snapshot(c)), a.historyIndex + 1)

\* The editor's state as one value: the controller's circuit and history and
\* the input handler's fields.
Editor(c, a, h) == [circuit |-> c, app |-> a, input |-> h]

\* CircuitSimulator.saveState
saveState(ed) == [ed EXCEPT !.app = Saved(ed.app, ed.circuit)]

\* Every reference of the selection, once this.components and this.wires are
\* replaced by new arrays of new objects.
DropAll(selection) == [i \in 1..Len(selection) |-> Dropped(selection[i])]

\* CircuitSimulator.loadState
loadState(ed, state) ==
    [ed EXCEPT !.circuit = Restored(state),
               !.input.selectedComponents = DropAll(@)]

\* CircuitSimulator.undo / redo
undo(ed) ==
    IF ed.app.historyIndex > 0
    THEN loadState([ed EXCEPT !.app.historyIndex = @ - 1], ed.app.history[ed.app.historyIndex])
    ELSE ed
redo(ed) ==
    IF ed.app.historyIndex < Len(ed.app.history) - 1
    THEN loadState([ed EXCEPT !.app.historyIndex = @ + 1], ed.app.history[ed.app.historyIndex + 2])
    ELSE ed

\* CircuitSimulator.clearCircuit, once the confirm dialog is accepted
clearCircuit(ed) ==
    saveState([ed EXCEPT !.circuit = EmptyCircuit,
                         !.input.selectedComponents = DropAll(@)])

\* CircuitSimulator.placeComponent, the new object's id being id
placeComponent(ed, type, position, id) ==
    saveState([ed EXCEPT !.circuit.components =
                            Append(@, Component(id, type, position, 0, initializeProperties(type)))])

\* CircuitSimulator.createWire
createWire(ed, startPoint, endPoint) ==
    saveState([ed EXCEPT !.circuit.wires = Append(@, Wire(startPoint, endPoint))])

\* The places of the live references of the given kind.
LivePlaces(selection, kind) ==
    {selection[i].index : i \in {j \in 1..Len(selection) : selection[j].live /\ selection[j].kind = kind}}

\* The sequence without the elements at the given places.
RECURSIVE Without(_, _, _)
Without(seq, places, i) ==
    IF i > Len(seq) THEN << >>
    ELSE (IF i \in places THEN << >> ELSE <<seq[i]>>) \o Without(seq, places, i + 1)

\* CircuitSimulator.deleteComponents: indexOf finds the objects still in the arrays.
deleteComponents(ed, selection) ==
    saveState([ed EXCEPT
        !.circuit.components = Without(@, LivePlaces(selection, "component"), 1),
        !.circuit.wires = Without(@, LivePlaces(selection, "wire"), 1)])

\* InputHandler.cancelWireDrawing
cancelWireDrawing(ed) ==
    [ed EXCEPT !.input.isDrawingWire = FALSE, !.input.wireStartPoint = Null]

\* InputHandler.clearSelection
clearSelection(ed) == [ed EXCEPT !.input.selectedComponents = << >>]

\* cancelCurrentAction without its clearSelection call.
cancelCurrentAction_keepsSelection(ed) ==
    [cancelWireDrawing(ed) EXCEPT !.input.selectedTool = "select"]

\* InputHandler.cancelCurrentAction
cancelCurrentAction(ed) ==
    [clearSelection(cancelWireDrawing(ed)) EXCEPT !.input.selectedTool = "select"]

\* InputHandler.setSelectedTool
setSelectedTool(ed, tool) ==
    [(IF ed.input.selectedTool # tool THEN clearSelection(cancelWireDrawing(ed)) ELSE ed)
        EXCEPT !.input.selectedTool = tool]

\* component.selected
IsSelected(selection, ref) == \E i \in 1..Len(selection) : selection[i] = ref

\* InputHandler.selectComponent
selectComponent(ed, ref) ==
    IF IsSelected(ed.input.selectedComponents, ref) THEN ed
    ELSE [ed EXCEPT !.input.selectedComponents = Append(@, ref)]

\* InputHandler.deselectComponent
deselectComponent(ed, ref) ==
    [ed EXCEPT !.input.selectedComponents = SelectSeq(@, LAMBDA e : e # ref)]

RECURSIVE SelectEach(_, _, _, _)
SelectEach(ed, kind, i, n) ==
    IF i > n THEN ed ELSE SelectEach(selectComponent(ed, Ref(kind, i)), kind, i + 1, n)

\* InputHandler.selectAll
selectAll(ed) ==
    SelectEach(SelectEach(ed, "component", 1, Len(ed.circuit.components)),
               "wire", 1, Len(ed.circuit.wires))

\* InputHandler.deleteSelected
deleteSelected(ed) ==
    IF Len(ed.input.selectedComponents) > 0
    THEN clearSelection(deleteComponents(ed, ed.input.selectedComponents))
    ELSE ed

\* InputHandler.rotateSelected, the rotation counted in quarter turns
rotateSelected(ed) ==
    [ed EXCEPT !.circuit.components =
        [i \in 1..Len(@) |->
            IF i \in LivePlaces(ed.input.selectedComponents, "component") /\ @[i].type # "ground"
            THEN [@[i] EXCEPT !.rotation = (@ + 1) % 4]
            ELSE @[i]]]

\* InputHandler.handleToolShortcuts (Alt not held)
handleToolShortcuts(ed, key, ctrl) ==
    IF key \in {"s", "w", "r", "c", "l", "v", "g"} /\ ~ctrl
    THEN setSelectedTool(ed,
            CASE key = "s" -> "select" [] key = "w" -> "wire" [] key = "r" -> "resistor"
              [] key = "c" -> "capacitor" [] key = "l" -> "inductor" [] key = "v" -> "voltage"
              [] OTHER -> "ground")
    ELSE ed

\* The switch on e.key in handleKeyDown; key is e.key in lower case.  Copy,
\* paste and the handler's own undo() and redo() are empty methods.
KeySwitch(ed, key, ctrl, shift) ==
    CASE key \in {"delete", "backspace"} -> deleteSelected(ed)
      [] key = "escape" -> cancelCurrentAction(ed)
      [] key = "a" /\ ctrl -> selectAll(ed)
      [] key = "r" -> rotateSelected(ed)
      [] OTHER -> ed

\* InputHandler.handleKeyDown
handleKeyDown(ed, key, ctrl, shift) ==
    handleToolShortcuts(KeySwitch(ed, key, ctrl, shift), key, ctrl)

\* handleSelectTool once the selection is cleared or kept: on a component
\* that is selected, Ctrl deselects it and otherwise a drag starts.
SelectFound(ed, ref, ctrl) ==
    IF IsSelected(ed.input.selectedComponents, ref)
    THEN IF ctrl THEN deselectComponent(ed, ref) ELSE [ed EXCEPT !.input.isDragging = TRUE]
    ELSE [selectComponent(ed, ref) EXCEPT !.input.isDragging = TRUE]

\* InputHandler.handleSelectTool
handleSelectTool(ed, worldPos, ctrl, shift) ==
    IF findComponentAt(ed.circuit, worldPos) # Null
    THEN SelectFound(IF ~ctrl /\ ~shift THEN clearSelection(ed) ELSE ed,
                     findComponentAt(ed.circuit, worldPos), ctrl)
    ELSE IF ~ctrl /\ ~shift THEN clearSelection(ed) ELSE ed

\* this.wireStartPoint.distance(snappedPos) > 5
LongEnough(p, q) == SquaredDistance(p, q) > U(MinWireLength) * U(MinWireLength)

\* The wire tool without the length test: the second click always creates.
WireToolAt_anyLength(ed, snappedPos) ==
    IF ~ed.input.isDrawingWire
    THEN [ed EXCEPT !.input.wireStartPoint = snappedPos, !.input.isDrawingWire = TRUE]
    ELSE cancelWireDrawing(createWire(ed, ed.input.wireStartPoint, snappedPos))

\* InputHandler.handleWireTool with the snapped position
WireToolAt(ed, snappedPos) ==
    IF ~ed.input.isDrawingWire
    THEN [ed EXCEPT !.input.wireStartPoint = snappedPos, !.input.isDrawingWire = TRUE]
    ELSE cancelWireDrawing(
            IF ed.input.wireStartPoint # Null /\ LongEnough(ed.input.wireStartPoint, snappedPos)
            THEN createWire(ed, ed.input.wireStartPoint, snappedPos)
            ELSE ed)

\* InputHandler.handleLeftMouseDown
handleLeftMouseDown(ed, worldPos, ctrl, shift, id) ==
    CASE ed.input.selectedTool = "select" -> handleSelectTool(ed, worldPos, ctrl, shift)
      [] ed.input.selectedTool = "wire" -> WireToolAt(ed, snapToGrid(worldPos))
      [] OTHER -> placeComponent(ed, ed.input.selectedTool, snapToGrid(worldPos), id)

\* InputHandler.handleRightMouseDown
handleRightMouseDown(ed) == IF ed.input.isDrawingWire THEN cancelWireDrawing(ed) ELSE ed

\* InputHandler.handleMouseUp
handleMouseUp(ed) == [ed EXCEPT !.input.isDragging = FALSE]

\* The keys pressed, as e.key in lower case (the key r, which also turns the
\* selected components, is not pressed).
Keys == {"delete", "backspace", "escape", "a", "c", "v", "z", "s", "w", "l", "g"}

\* The world positions clicked: the example's resistor, its first wire, and
\* an empty place off the grid.
ClickPoints == {At(400, 200), At(300, 200), Vector2(U(100) + 1, U(107))}

\* The ids generateId may return for a new object: the id of the example's
\* ground, and ids not in use.
NewIds == 3..MaxIds

\* event before any event.
NoEvent == [tick |-> 0, cancelled |-> Null, parsed |-> "none"]

\* What a keydown of the key cancels in the input state h: for Escape the
\* tool, the wire being drawn and whether objects were selected; else null.
Cancelled(key, h) ==
    IF key = "escape"
    THEN [selectedTool |-> h.selectedTool, isDrawingWire |-> h.isDrawingWire,
          selected |-> h.selectedComponents # << >>]
    ELSE Null

\* The editor handles an event and moves to the state ed.
HandledWith(ed, cancelled) ==
    /\ circuit' = ed.circuit
    /\ app' = ed.app
    /\ input' = ed.input
    /\ event' = [tick |-> 1 - event.tick, cancelled |-> cancelled, parsed |-> "none"]
    /\ UNCHANGED <<analyzer, ret, reply, lastRun, assemblyVars>>

Handled(ed) == HandledWith(ed, Null)

\* keydown of the given key, while the history holds at most MaxSnapshots
KeyDownOf(key, ctrl, shift) ==
    \E ed \in {handleKeyDown(Editor(circuit, app, input), key, ctrl, shift)} :
        /\ Len(ed.app.history) <= MaxSnapshots
        /\ HandledWith(ed, Cancelled(key, input))

KeyDown == \E key \in Keys : \E ctrl \in BOOLEAN : \E shift \in BOOLEAN : KeyDownOf(key, ctrl, shift)

\* mousedown with the left button
LeftMouseDown ==
    \E worldPos \in ClickPoints : \E ctrl \in BOOLEAN : \E shift \in BOOLEAN :
        \E id \in NewIds :
            \E ed \in {handleLeftMouseDown(Editor(circuit, app, input), worldPos, ctrl, shift, id)} :
                /\ Len(ed.app.history) <= MaxSnapshots
                /\ Handled(ed)

\* mousedown with the right button
RightMouseDown == Handled(handleRightMouseDown(Editor(circuit, app, input)))

\* mouseup
MouseUp == Handled(handleMouseUp(Editor(circuit, app, input)))

\* click on a component button: CircuitSimulator.setSelectedTool
ToolButton == \E tool \in Tools : Handled(setSelectedTool(Editor(circuit, app, input), tool))

\* click on the clear button, the dialog accepted, while the history holds
\* at most limit snapshots
ClearCircuitWithin(limit) ==
    \E ed \in {clearCircuit(Editor(circuit, app, input))} :
        /\ Len(ed.app.history) <= limit
        /\ Handled(ed)

ClearButton == ClearCircuitWithin(MaxSnapshots)

ClearCircuit == ClearCircuitWithin(HistoryLimit)

\* CircuitSimulator.undo() and redo(), called on the controller
Undo == Handled(undo(Editor(circuit, app, input)))
Redo == Handled(redo(Editor(circuit, app, input)))

\* The history once the constructor has run: initializeUI saves the empty
\* circuit, loadExampleCircuit saves the example.
ConstructedApp == Saved(Saved(NewApp, EmptyCircuit), ExampleCircuit)

(***************************************************************************)
(* CircuitParser and CircuitSimulator.parseCircuitInput                    *)
(***************************************************************************)
\* Bound of the text parsed: its number of lines.
MaxLines == 2

\* A line is the sequence of its parts, line.trim().split(/\s+/): the type
\* letter, then numerals given as their decimal digits.  A blank line has no
\* part.  parseFloat / parseInt of a numeral:
RECURSIVE DigitsValue(_, _)
DigitsValue(digits, k) ==
    IF k = 0 THEN 0 ELSE 10 * DigitsValue(digits, k - 1) + digits[k]

parseFloat(digits) == DigitsValue(digits, Len(digits))

\* parts[0].toLowerCase()
toLowerCase(letter) ==
    CASE letter = "R" -> "r"
      [] letter = "G" -> "g"
      [] letter = "W" -> "w"
      [] OTHER -> letter

\* What parseLine does: it throws, or returns an object (type "wire" for a
\* wire) or null (type "").
Thrown == [throws |-> TRUE, type |-> "", parsed |-> Null]
Returned(type, object) == [throws |-> FALSE, type |-> type, parsed |-> object]

\* Math.atan2(dy, dx) of an axis-parallel line, in quarter turns.
Atan2(dy, dx) ==
    CASE dy = 0 /\ dx >= 0 -> 0
      [] dx = 0 /\ dy > 0 -> 1
      [] dy = 0 /\ dx < 0 -> 2
      [] dx = 0 /\ dy < 0 -> 3

\* new Vector2((x1 + x2) / 2, (y1 + y2) / 2)
Middle(parts) ==
    Vector2(U(parseFloat(parts[2]) + parseFloat(parts[4])) \div 2,
            U(parseFloat(parts[3]) + parseFloat(parts[5])) \div 2)

\* Math.atan2(y2 - y1, x2 - x1)
Direction(parts) ==
    Atan2(parseFloat(parts[5]) - parseFloat(parts[3]),
          parseFloat(parts[4]) - parseFloat(parts[2]))

parseResistor(parts, id) ==
    IF Len(parts) < 7 THEN Thrown
    ELSE Returned("resistor",
             Component(id, "resistor", Middle(parts), Direction(parts),
                       [initializeProperties("resistor") EXCEPT
                            !.resistance = RInt(parseFloat(parts[7]))]))

\* capacitance * 1e-12
parseCapacitor(parts, id) ==
    IF Len(parts) < 7 THEN Thrown
    ELSE Returned("capacitor",
             Component(id, "capacitor", Middle(parts), Direction(parts),
                       [initializeProperties("capacitor") EXCEPT
                            !.capacitance = RDiv(RDiv(RInt(parseFloat(parts[7])), RInt(1000000)),
                                                 RInt(1000000))]))

\* inductance * 1e-6
parseInductor(parts, id) ==
    IF Len(parts) < 7 THEN Thrown
    ELSE Returned("inductor",
             Component(id, "inductor", Middle(parts), Direction(parts),
                       [initializeProperties("inductor") EXCEPT
                            !.inductance = RDiv(RInt(parseFloat(parts[7])), RInt(1000000))]))

parseVoltageSource(parts, id) ==
    IF Len(parts) < 7 THEN Thrown
    ELSE Returned("voltage",
             Component(id, "voltage", Middle(parts), Direction(parts),
                       [initializeProperties("voltage") EXCEPT
                            !.voltage = RInt(parseFloat(parts[7]))]))

parseGround(parts, id) ==
    IF Len(parts) < 4 THEN Thrown
    ELSE Returned("ground",
             Component(id, "ground",
                       Vector2(U(parseFloat(parts[2])), U(parseFloat(parts[3]))), 0,
                       initializeProperties("ground")))

parseWire(parts) ==
    IF Len(parts) < 5 THEN Thrown
    ELSE Returned("wire",
             Wire(Vector2(U(parseFloat(parts[2])), U(parseFloat(parts[3]))),
                  Vector2(U(parseFloat(parts[4])), U(parseFloat(parts[5])))))

\* CircuitParser.parseLine, the new object's id being id
parseLine(parts, id) ==
    IF Len(parts) < 2 THEN Thrown
    ELSE CASE toLowerCase(parts[1]) = "r" -> parseResistor(parts, id)
           [] toLowerCase(parts[1]) = "c" -> parseCapacitor(parts, id)
           [] toLowerCase(parts[1]) = "l" -> parseInductor(parts, id)
           [] toLowerCase(parts[1]) = "v" -> parseVoltageSource(parts, id)
           [] toLowerCase(parts[1]) = "g" -> parseGround(parts, id)
           [] toLowerCase(parts[1]) = "w" -> parseWire(parts)
           [] OTHER -> Returned("", Null)

\* circuitText.split('\n').filter(line => line.trim() !== '')
NonBlank(text) == SelectSeq(text, LAMBDA line : line # << >>)

\* The forEach of parseCircuitData from line i on: a line that throws is
\* skipped, null is dropped, wires and components are collected in order.
RECURSIVE ParsedFrom(_, _, _, _)
\* One iteration, r being what parseLine did on line i.
ParsedLine(lines, i, id, c, r) ==
    IF r.throws \/ r.parsed = Null
    THEN ParsedFrom(lines, i + 1, id, c)
    ELSE IF r.type = "wire"
    THEN ParsedFrom(lines, i + 1, id, [c EXCEPT !.wires = Append(@, r.parsed)])
    ELSE ParsedFrom(lines, i + 1, id + 1, [c EXCEPT !.components = Append(@, r.parsed)])

ParsedFrom(lines, i, id, c) ==
    IF i > Len(lines) THEN c ELSE ParsedLine(lines, i, id, c, parseLine(lines[i], id))

\* CircuitParser.parseCircuitData, the new components' ids being id, id + 1, ...
parseCircuitData(text, id) == ParsedFrom(NonBlank(text), 1, id, EmptyCircuit)

\* CircuitParser.validateCircuitData: the lines parseLine throws on.
ErrorsOf(lines) ==
    [isValid |-> \A i \in 1..Len(lines) : ~parseLine(lines[i], 0).throws,
     errors |-> {i \in 1..Len(lines) : parseLine(lines[i], 0).throws}]

validateCircuitData(text) == ErrorsOf(NonBlank(text))

\* parseCircuitInput that parses without validating first.
parseCircuitInput_skipsValidation(ed, text, id) ==
    IF NonBlank(text) = << >> THEN ed
    ELSE saveState([ed EXCEPT !.circuit = parseCircuitData(text, id),
                              !.input.selectedComponents = DropAll(@)])

\* CircuitSimulator.parseCircuitInput, the text being this.circuitInput.value
parseCircuitInput(ed, text, id) ==
    IF NonBlank(text) = << >> THEN ed
    ELSE IF ~validateCircuitData(text).isValid THEN ed
    ELSE saveState([ed EXCEPT !.circuit = parseCircuitData(text, id),
                              !.input.selectedComponents = DropAll(@)])

\* The lines typed: the example's resistor, source, inductor, ground and wire
\* lines, some of them cut short, a line of an unknown type, a lone letter
\* and a blank line.
Lines ==
    { <<"r", <<1,0,0>>, <<1,0,0>>, <<2,0,0>>, <<1,0,0>>, <<0>>, <<1,0,0,0>>>>,
      <<"R", <<1,0,0>>, <<1,0,0>>, <<2,0,0>>, <<1,0,0>>, <<0>>>>,
      <<"v", <<1,0,0>>, <<2,0,0>>, <<1,0,0>>, <<3,0,0>>, <<0>>, <<5>>>>,
      <<"l", <<4,0,0>>, <<1,0,0>>, <<5,0,0>>, <<1,0,0>>, <<0>>, <<1,0>>>>,
      <<"g", <<1,0,0>>, <<3,5,0>>, <<0>>>>,
      <<"g", <<1,0,0>>>>,
      <<"w", <<2,0,0>>, <<1,0,0>>, <<2,5,0>>, <<1,0,0>>>>,
      <<"w", <<2,0,0>>, <<1,0,0>>>>,
      <<"x", <<1>>>>,
      <<"r">>,
      << >> }

RECURSIVE TextsOf(_)
TextsOf(n) ==
    IF n = 0 THEN { << >> }
    ELSE TextsOf(n - 1) \cup {Append(t, line) : t \in {u \in TextsOf(n - 1) : Len(u) = n - 1},
                                                 line \in Lines}

Texts == TextsOf(MaxLines)

\* How the text was judged: blank, rejected, or accepted.
Judged(text) ==
    IF NonBlank(text) = << >> THEN "blank"
    ELSE IF validateCircuitData(text).isValid THEN "accepted" ELSE "rejected"

\* A click on the parse button with the text typed: an accepted text
\* replaces the circuit of the editor as constructed.
ParseText(text) ==
    \E id \in NewIds :
        \E ed \in {parseCircuitInput(Editor(circuit, app, input), text, id)} :
            /\ ed.app = app \/ app = ConstructedApp
            /\ circuit' = ed.circuit
            /\ app' = ed.app
            /\ input' = ed.input
            /\ event' = [tick |-> 1 - event.tick, cancelled |-> Null, parsed |-> Judged(text)]
            /\ UNCHANGED <<analyzer, ret, reply, lastRun, assemblyVars>>

ParseButton == \E text \in Texts : ParseText(text)

(***************************************************************************)
(* Specifications                                                          *)
(***************************************************************************)
\* The engine's life cycle: the controller holds the example circuit it
\* loads on construction; simulate is called with it or with a named circuit.
Init ==
    /\ circuit = ExampleCircuit
    /\ analyzer = NewAnalyzer
    /\ ret = NoReturn
    /\ reply = NoReply
    /\ lastRun = Null
    /\ system = NoSystem
    /\ solver = NoSolver
    /\ app = NewApp
    /\ input = NewInput
    /\ event = NoEvent

SimulateGiven == Simulate(circuit)

SimulateNamed == \E c \in NamedCircuits : Simulate(c)

Next == SimulateGiven \/ SimulateNamed \/ Reset \/ ValidateCircuit \/ GetAnalysisReport

Spec == Init /\ [][Next]_vars

\* One analysis of any drawn circuit.
InitAny ==
    /\ circuit \in Circuits
    /\ analyzer = NewAnalyzer
    /\ ret = NoReturn
    /\ reply = NoReply
    /\ lastRun = Null
    /\ system = NoSystem
    /\ solver = NoSolver
    /\ app = NewApp
    /\ input = NewInput
    /\ event = NoEvent

NextAny == SimulateGiven \/ Reset

SpecAny == InitAny /\ [][NextAny]_vars

\* The assembly loop of solveCircuit taken alone: G and I as earlier
\* iterations left them, for a netlist of up to MaxNodes + 1 nodes.
InitStamp ==
    /\ circuit = EmptyCircuit
    /\ analyzer = NewAnalyzer
    /\ ret = NoReturn
    /\ reply = NoReply
    /\ lastRun = Null
    /\ \E n \in 1..MaxNodes : \E prior \in PriorElements(n) :
          system = [n |-> n,
                    G |-> StampFrom([G |-> ZeroMatrix(n), I |-> ZeroVector(n)], prior, 1).G,
                    I |-> StampFrom([G |-> ZeroMatrix(n), I |-> ZeroVector(n)], prior, 1).I,
                    comp |-> Null, before |-> Null]
    /\ solver = NoSolver
    /\ app = NewApp
    /\ input = NewInput
    /\ event = NoEvent

NextStamp == StampElement

SpecStamp == InitStamp /\ [][NextStamp]_vars

\* solveLinearSystem taken alone, on every system of up to MaxUnknowns
\* unknowns over MatrixEntries.
InitSolve ==
    /\ circuit = EmptyCircuit
    /\ analyzer = NewAnalyzer
    /\ ret = NoReturn
    /\ reply = NoReply
    /\ lastRun = Null
    /\ system = NoSystem
    /\ \E n \in 1..MaxUnknowns : \E augmented \in AugmentedSystems(n) :
          solver = [n |-> n, augmented |-> augmented, i |-> 1, status |-> "pivoting",
                    pivot |-> Null, x |-> << >>]
    /\ app = NewApp
    /\ input = NewInput
    /\ event = NoEvent

NextSolve == PivotColumn \/ BackSubstitution

SpecSolve == InitSolve /\ [][NextSolve]_vars

\* The editor once constructed, with the example circuit loaded.
InitEditor ==
    /\ circuit = ExampleCircuit
    /\ analyzer = NewAnalyzer
    /\ ret = NoReturn
    /\ reply = NoReply
    /\ lastRun = Null
    /\ system = NoSystem
    /\ solver = NoSolver
    /\ app = ConstructedApp
    /\ input = NewInput
    /\ event = NoEvent

\* The events of the user interface.
NextEditor == KeyDown \/ LeftMouseDown \/ RightMouseDown \/ MouseUp \/ ToolButton \/ ClearButton

SpecEditor == InitEditor /\ [][NextEditor]_vars

\* The undo history under saveState (of a cleared circuit), undo and redo.
NextHistory == ClearCircuit \/ Undo \/ Redo

SpecHistory == InitEditor /\ [][NextHistory]_vars

\* The values the properties panel or an imported file gives a resistor's
\* power rating and a source's voltage.
Ratings == {RZero, <<1, 4>>, <<1, 10000>>}
SourceVoltages == {RInt(9), <<1, 1000>>}

\* A resistor's properties: resistance 1 mOhm or 0, or none; a rating or none.
RatedResistorProperties ==
    { [resistance |-> r, tolerance |-> RInt(5), power |-> p] :
          r \in {<<1, 1000>>, RZero}, p \in Ratings }
    \cup { [resistance |-> r, tolerance |-> RInt(5)] : r \in {<<1, 1000>>, RZero} }
    \cup { [tolerance |-> RInt(5), power |-> p] : p \in Ratings }

\* A grounded source with a resistor across it.
RatedCircuits ==
    { Circuit(<< Component(1, "ground", At(0, 0), 0, GroundProperties),
                 Component(2, "voltage", At(25, 0), 2,
                           [voltage |-> v, frequency |-> RZero, phase |-> RZero]),
                 Component(3, "resistor", At(25, 0), 0, properties) >>, << >>) :
          v \in SourceVoltages, properties \in RatedResistorProperties }

\* The engine on a circuit whose resistor has any rating and resistance.
InitRated ==
    /\ circuit \in RatedCircuits
    /\ analyzer = NewAnalyzer
    /\ ret = NoReturn
    /\ reply = NoReply
    /\ lastRun = Null
    /\ system = NoSystem
    /\ solver = NoSolver
    /\ app = NewApp
    /\ input = NewInput
    /\ event = NoEvent

NextRated == SimulateGiven \/ ValidateCircuit \/ Reset

SpecRated == InitRated /\ [][NextRated]_vars

\* The parse button on the editor as constructed.
NextParse == ParseButton

SpecParse == InitEditor /\ [][NextParse]_vars

(***************************************************************************)
(* Properties                                                              *)
(***************************************************************************)
\* A simulate call has returned; ret.call holds its arguments.
Called == ret.stages # << >>

CallNodeMap == nodeMapOf(ret.call.components, ret.call.wires)
CallPoints == allPoints(ret.call.components, ret.call.wires)
CallGroups == nodeGroups(CallPoints)
CallHasGround == groundComponents(ret.call.components) # {}

\* The ids of the components of the circuits in use, and 0, the id of none.
KnownIds ==
    {0} \cup UNION { {c.components[i].id : i \in 1..Len(c.components)} :
                       c \in NamedCircuits \cup {circuit} }

\* Some step of the engine is a simulate call.
SimulateStep == SimulateGiven \/ SimulateNamed

\* C1: after netlist construction the two endpoints of every wire map to the
\* same node id, whatever the wire's length.
C1_WireEndsShareNode ==
    Called =>
        \A i \in 1..Len(ret.call.wires) :
            NodeOf(CallNodeMap, ret.call.wires[i].startPoint)
                = NodeOf(CallNodeMap, ret.call.wires[i].endPoint)

\* C2: a simulate call that fails leaves the stored last result, and what
\* validateCircuit, getComponentResults and getAnalysisReport return, as they
\* were before the call.
C2_FailedCallKeepsLastResult ==
    [][ (SimulateStep /\ ~ret'.success) =>
            /\ analyzer'.simulationResults = analyzer.simulationResults
            /\ validateCircuit(analyzer') = validateCircuit(analyzer)
            /\ getAnalysisReport(analyzer') = getAnalysisReport(analyzer)
            /\ \A id \in KnownIds :
                  getComponentResults(analyzer', id) = getComponentResults(analyzer, id)
      ]_vars

\* A failed call has returned while the result of an earlier successful call is stored.
C2_Witness ==
    /\ Called
    /\ ~ret.success
    /\ analyzer.simulationResults # Null
    /\ analyzer.components = ret.call.components

\* C3: simulate on a circuit without a ground component fails with the
\* no-ground error and neither assembles nor solves the linear system.
C3_NoGroundFailsBeforeSolve ==
    (Called /\ ~CallHasGround) =>
        /\ ~ret.success
        /\ ret.error = NoGroundError
        /\ ~Ran(ret, "solveCircuit")
        /\ ~Ran(ret, "assemble")
        /\ ~Ran(ret, "solveLinearSystem")

\* A call on a groundless circuit with several components and a wire has returned.
C3_Witness ==
    /\ Called
    /\ ~CallHasGround
    /\ Len(ret.call.components) >= 2
    /\ Len(ret.call.wires) >= 1
    /\ ret.error = NoGroundError

\* Component i of comps has no terminal within tolerance of a terminal of
\* another component (a ground's point included).
Isolated(comps, i) ==
    /\ comps[i].type # "ground"
    /\ \A j \in 1..Len(comps) : j # i =>
          \A a \in 1..Len(getConnectionPoints(comps[i])) :
             \A b \in 1..Len(getConnectionPoints(comps[j])) :
                ~WithinTolerance(getConnectionPoints(comps[i])[a], getConnectionPoints(comps[j])[b])

\* C4: a grounded circuit holding an isolated component makes simulate fail
\* with the singular-system error.
C4_IsolatedComponentIsSingular ==
    (Called /\ CallHasGround
        /\ \E i \in 1..Len(ret.call.components) : Isolated(ret.call.components, i)) =>
        (~ret.success /\ ret.error = SingularError)

\* C5: simulating the built-in voltage divider succeeds and the node between
\* the two resistors is at 3.0 V within a few percent (2.9 V .. 3.1 V).
C5_VoltageDividerMidNode ==
    (Called /\ ret.call = VoltageDividerCircuit) =>
        IF ret.success
        THEN LET mid == ret.results.netlist.components[2].nodes[2]
                 v == VoltageAt(ret.results.nodeVoltages, mid)
             IN RLeq(<<29, 10>>, v) /\ RLeq(v, <<31, 10>>)
        ELSE FALSE

\* C6: every successful simulate returns a node-voltage vector as long as the
\* netlist's node count, whose entry for node 0 is exactly 0.
C6_VoltageVectorShape ==
    ret.success =>
        /\ Len(ret.results.nodeVoltages) = ret.results.netlist.nodeCount
        /\ ret.results.nodeVoltages[1] = RZero

\* A successful call with at least two unknown nodes, one of them not at 0 V.
C6_Witness ==
    /\ ret.success
    /\ ret.results.netlist.nodeCount >= 3
    /\ \E i \in 2..Len(ret.results.nodeVoltages) : ret.results.nodeVoltages[i] # RZero

\* C7: a simulate call with the arguments of the previous call returns what
\* the previous call returned, whatever state that call (and a reset after
\* it) left in the analyzer.
C7_RepeatedCallSameReturn ==
    [][ (SimulateStep /\ Called /\ ret'.call = ret.call) => ret' = ret ]_vars

\* The analyzer holds the state a successful call left, so that the next
\* call with the same arguments starts from it.
C7_Witness ==
    /\ ret.success
    /\ analyzer.isSimulating
    /\ analyzer.simulationResults = ret.results
    /\ analyzer.components = ret.call.components
    /\ analyzer.groundNode = GroundNodeZero

\* C8: with more than one ground component, every component terminal in a
\* group that holds a ground component's point resolves to node 0.
C8_GroundClustersResolveToZero ==
    (Called /\ Cardinality(groundComponents(ret.call.components)) > 1) =>
        \A g \in 1..Len(CallGroups) :
            hasGround(CallPoints, CallGroups[g]) =>
                \A k \in 1..Len(CallGroups[g]) :
                    CallPoints[CallGroups[g][k]].kind = "component" =>
                        NodeOf(CallNodeMap, CallPoints[CallGroups[g][k]]) = 0

\* C9: every terminal of every non-ground component is found in the
\* point-to-node map, so the fall-back to node 0 is never taken.
C9_EveryTerminalMapped ==
    Called =>
        \A i \in 1..Len(ret.call.components) :
            ret.call.components[i].type # "ground" =>
                \A t \in 1..Len(getConnectionPoints(ret.call.components[i])) :
                    MapHas(CallNodeMap, Key(getConnectionPoints(ret.call.components[i])[t]))

\* C10: a circuit with a ground and no other component fails with the
\* empty-circuit error, before the linear solver runs.
C10_GroundOnlyIsEmptyCircuitError ==
    (Called /\ CallHasGround
        /\ \A i \in 1..Len(ret.call.components) : ret.call.components[i].type = "ground") =>
        /\ ~ret.success
        /\ ret.error = NoNodeError
        /\ ~Ran(ret, "solveLinearSystem")

\* Some step of the engine is a query.
QueryStep == ValidateCircuit \/ GetAnalysisReport

\* What the query named op returns for an analyzer whose stored result is results.
QueryOn(op, results) ==
    IF op = "validateCircuit" THEN validateCircuit([simulationResults |-> results])
    ELSE getAnalysisReport([simulationResults |-> results])

\* C11: validateCircuit and getAnalysisReport change no field of the analyzer
\* (the stored last result included), in any state, and what they return is
\* the report on the last successful run, also after a failed simulate.
C11_QueriesAreReadOnly ==
    [][ QueryStep =>
            /\ analyzer' = analyzer
            /\ reply'.value = QueryOn(reply'.op, lastRun)
      ]_vars

\* A report was produced after a failed simulate while the result of an
\* earlier successful run is stored, and the analyzer still stores it.
C11_Witness ==
    /\ reply.op = "getAnalysisReport"
    /\ reply.afterFailure
    /\ lastRun # Null
    /\ analyzer.simulationResults = lastRun
    /\ reply.value = getAnalysisReport(analyzer)

\* The point at place k of group g of the call's node groups.
CallPointAt(g, k) == CallPoints[CallGroups[g][k]]

CallGroupHasGround(g) == hasGround(CallPoints, CallGroups[g])

\* C15: netlist construction gives each cluster exactly one node id: every
\* point has an id in the map, two points of one cluster have the same id, a
\* cluster with a ground point has id 0, and points of different non-ground
\* clusters have different ids, also when their coordinates round to one key.
C15_OneNodeIdPerCluster ==
    Called =>
        /\ \A g \in 1..Len(CallGroups) : \A k, l \in 1..Len(CallGroups[g]) :
              /\ MapHas(CallNodeMap, Key(CallPointAt(g, k)))
              /\ CallNodeMap[Key(CallPointAt(g, k))] = CallNodeMap[Key(CallPointAt(g, l))]
        /\ \A g \in 1..Len(CallGroups) : CallGroupHasGround(g) =>
              \A k \in 1..Len(CallGroups[g]) : CallNodeMap[Key(CallPointAt(g, k))] = 0
        /\ \A g, h \in 1..Len(CallGroups) :
              (g # h /\ ~CallGroupHasGround(g) /\ ~CallGroupHasGround(h)) =>
                  \A k \in 1..Len(CallGroups[g]) : \A l \in 1..Len(CallGroups[h]) :
                      NodeOf(CallNodeMap, CallPointAt(g, k)) # NodeOf(CallNodeMap, CallPointAt(h, l))

\* The points p and q are at most 15 apart.
Within15(p, q) == SquaredDistance(p, q) <= U(15) * U(15)

\* The places <<g, k>> of the node groups: member k of group g.
Places(groups, n) == {gk \in (1..Len(groups)) \X (1..n) : gk[2] <= Len(groups[gk[1]])}

\* groups partitions the points pts by seed, as C16 states it.
PartitionsBySeed(pts, groups, places) ==
    /\ \A i \in 1..Len(pts) : Cardinality({gk \in places : groups[gk[1]][gk[2]] = i}) = 1
    /\ \A gk \in places :
          /\ groups[gk[1]][gk[2]] \in 1..Len(pts)
          /\ groups[gk[1]][1] <= groups[gk[1]][gk[2]]
          /\ Within15(pts[groups[gk[1]][1]], pts[groups[gk[1]][gk[2]]])
          /\ \A h \in 1..Len(groups) :
                Within15(pts[groups[h][1]], pts[groups[gk[1]][gk[2]]]) =>
                    groups[gk[1]][1] <= groups[h][1]

\* C16: clustering partitions the points: every terminal and wire end is at
\* exactly one place of exactly one group; the seed of a group is its first
\* point in input order and every member is within 15 of the seed; a point is
\* in the group of the earliest seed within 15 of it, so a group is never
\* extended through a member that is not its seed.
C16_ClusteringPartitionsBySeed ==
    Called =>
        LET pts == CallPoints
            groups == nodeGroups(pts)
        IN PartitionsBySeed(pts, groups, Places(groups, Len(pts)))

\* pts holds a chain: a member exactly 15 from its seed, and a point of
\* another group within 15 of that member but further from the seed.
HasChain(pts, groups, places) ==
    \E gk \in places : \E hl \in places :
        /\ gk[2] > 1
        /\ SquaredDistance(pts[groups[gk[1]][1]], pts[groups[gk[1]][gk[2]]]) = U(15) * U(15)
        /\ hl[1] # gk[1]
        /\ Within15(pts[groups[gk[1]][gk[2]]], pts[groups[hl[1]][hl[2]]])
        /\ ~Within15(pts[groups[gk[1]][1]], pts[groups[hl[1]][hl[2]]])

\* A call whose points hold such a chain has returned.
C16_Witness ==
    /\ Called
    /\ LET pts == CallPoints
           groups == nodeGroups(pts)
       IN HasChain(pts, groups, Places(groups, Len(pts)))

\* The loop has stamped an element of the given type.
Stamped(type) ==
    IF system.comp = Null THEN FALSE ELSE system.comp.type = type

\* 1 when the test holds, else 0.
Count(test) == IF test THEN 1 ELSE 0

\* C17: for a voltage source of nominal voltage V, V = 0 included, the
\* assembler adds 1000 to the diagonal entry of each terminal node that is not
\* ground, adds V*1000 to the current entry of the positive node and -V*1000
\* to that of the negative node when they are not ground, and changes no
\* other entry of G and I.
C17_VoltageSourceStamp ==
    (Stamped("voltage") /\ "voltage" \in DOMAIN system.comp.properties) =>
        /\ \A r \in 1..system.n : \A c \in 1..system.n :
              system.G[r][c] =
                  RAdd(system.before.G[r][c],
                       RInt(1000 * (Count(r = c /\ r = system.comp.nodes[1])
                                    + Count(r = c /\ r = system.comp.nodes[2]))))
        /\ \A r \in 1..system.n :
              system.I[r] =
                  RAdd(system.before.I[r],
                       RMul(system.comp.properties.voltage,
                            RInt(1000 * (Count(r = system.comp.nodes[1])
                                         - Count(r = system.comp.nodes[2])))))

\* 1 / r as a JavaScript number
Reciprocal(r) == IF r[1] = 0 THEN Infinity(1) ELSE Finite(RDiv(RInt(1), r))

\* How many times the conductance of an element between nodes a and b is
\* added to G[r][c]: once per non-ground terminal on the diagonal, minus once
\* on each off-diagonal entry when neither terminal is ground.
ConductanceCount(a, b, r, c) ==
    Count(r = c /\ r = a) + Count(r = c /\ r = b)
        - (IF a > 0 /\ b > 0 THEN Count(r = a /\ c = b) + Count(r = b /\ c = a) ELSE 0)

\* C18: for a resistor of resistance R between nodes (a, b) the assembler
\* adds g = 1/R to the diagonal entries of those of a and b that are not
\* ground and, only when neither is ground, subtracts g from the two
\* off-diagonal entries; no other entry of G changes and I is unchanged.
C18_ResistorStamp ==
    (Stamped("resistor") /\ "resistance" \in DOMAIN system.comp.properties) =>
        /\ \A r \in 1..system.n : \A c \in 1..system.n :
              IF ConductanceCount(system.comp.nodes[1], system.comp.nodes[2], r, c) = 0
              THEN system.G[r][c] = system.before.G[r][c]
              ELSE /\ Reciprocal(system.comp.properties.resistance).kind = "finite"
                   /\ system.G[r][c] =
                         RAdd(system.before.G[r][c],
                              RMul(Reciprocal(system.comp.properties.resistance).val,
                                   RInt(ConductanceCount(system.comp.nodes[1],
                                                         system.comp.nodes[2], r, c))))
        /\ system.I = system.before.I

\* The elements of a sequence that are not capacitors, in order.
RECURSIVE WithoutCapacitors(_, _)
WithoutCapacitors(elements, i) ==
    IF i > Len(elements) THEN << >>
    ELSE (IF elements[i].type = "capacitor" THEN << >> ELSE <<elements[i]>>)
         \o WithoutCapacitors(elements, i + 1)

\* C19: stamping a capacitor leaves G and I unchanged (the G and I of a run
\* are those of the netlist without its capacitors, and the stamp applied to
\* them changes nothing), and in every successful run each capacitor is
\* reported with current 0 and power 0.
C19_CapacitorIsOpenCircuit ==
    ret.success =>
        LET comps == ret.results.netlist.components
            n == ret.results.netlist.nodeCount - 1
            open == StampFrom([G |-> ZeroMatrix(n), I |-> ZeroVector(n)],
                              WithoutCapacitors(comps, 1), 1)
        IN /\ ret.results.matrix = open.G
           /\ ret.results.current = open.I
           /\ \A i \in 1..Len(comps) : comps[i].type = "capacitor" =>
                 /\ Stamp([G |-> ret.results.matrix, I |-> ret.results.current], comps[i])
                       = [G |-> ret.results.matrix, I |-> ret.results.current]
                 /\ comps[i].simulationResults.current = Finite(RZero)
                 /\ comps[i].simulationResults.power = Finite(RZero)

\* A successful run of a circuit with a capacitor between a node that is not
\* ground and another node.
C19_Witness ==
    /\ ret.success
    /\ \E i \in 1..Len(ret.results.netlist.components) :
          /\ ret.results.netlist.components[i].type = "capacitor"
          /\ ret.results.netlist.components[i].nodes[1] > 0
          /\ ret.results.netlist.components[i].nodes[1] # ret.results.netlist.components[i].nodes[2]

\* The solver has made the pass for some column.
Pivoted == solver.pivot # Null

\* Row k of rows i..n of aug holds a largest absolute value of column i.
LargestInColumn(aug, i, n, k) ==
    /\ k \in i..n
    /\ \A o \in i..n : RLeq(RAbs(aug[o][i]), RAbs(aug[k][i]))

\* C20: at every pivot column i the row swapped into position i is one with
\* the largest absolute value in column i among the rows from i on (the two
\* rows are exchanged and no other row moves), and the solver stops with the
\* singular-system error exactly when that largest value is below 1e-10; the
\* pass is made for every column before the back substitution.
C20_PartialPivoting ==
    /\ Pivoted =>
          /\ \E k \in solver.pivot.column..solver.n :
                /\ LargestInColumn(solver.pivot.before, solver.pivot.column, solver.n, k)
                /\ solver.pivot.swapped
                      = [solver.pivot.before EXCEPT ![solver.pivot.column] = solver.pivot.before[k],
                                                    ![k] = solver.pivot.before[solver.pivot.column]]
          /\ (solver.status = "singular") <=>
                \A o \in solver.pivot.column..solver.n :
                    BelowPivotThreshold(solver.pivot.before[o][solver.pivot.column])
    /\ solver.status \in {"eliminated", "solved"} =>
          (Pivoted /\ solver.pivot.column = solver.n /\ solver.i = solver.n + 1)
    /\ solver.status = "pivoting" =>
          solver.i = IF Pivoted THEN solver.pivot.column + 1 ELSE 1

\* A pass exchanged two rows, the diagonal entry being smaller than an entry
\* below it, and the solver went on to the next column.
C20_Witness ==
    /\ Pivoted
    /\ solver.pivot.swapped # solver.pivot.before
    /\ \E o \in (solver.pivot.column + 1)..solver.n :
          RLess(RAbs(solver.pivot.before[solver.pivot.column][solver.pivot.column]),
                RAbs(solver.pivot.before[o][solver.pivot.column]))
    /\ solver.status = "pivoting"

\* Some step of the editor saves a snapshot while the history, cut at the
\* current snapshot, already holds 50.
SavesThe51st ==
    /\ ClearCircuit
    /\ app.historyIndex + 1 = 50
    /\ Len(app.history) >= 50

\* C13: after any sequence of saveState, undo and redo the history holds at
\* most 50 snapshots, and when a 51st is saved the oldest snapshot is dropped
\* and the newest, that of the circuit just saved, is kept as the last one.
C13_HistoryHoldsAtMost50 ==
    /\ [](Len(app.history) <= 50)
    /\ [][ SavesThe51st =>
              /\ app'.history = Tail(app.history) \o <<Snapshot(circuit')>>
              /\ app'.historyIndex = 49
         ]_vars

\* The history is full and its first snapshot is the example's: the empty
\* circuit's snapshot, saved first, was dropped by a 51st save.
C13_Witness ==
    /\ Len(app.history) = 50
    /\ app.history[1] = Snapshot(ExampleCircuit)
    /\ app.history[50] = Snapshot(EmptyCircuit)
    /\ app.historyIndex = 49

\* An edit made after construction is the current snapshot of the history.
AfterAnEdit ==
    /\ app.historyIndex >= 2
    /\ app.historyIndex = Len(app.history) - 1
    /\ app.history[app.historyIndex + 1] = Snapshot(circuit)

\* C12: Ctrl+Z pressed after an edit puts the circuit back to the snapshot
\* before it in the history, and Ctrl+Shift+Z pressed while a later snapshot
\* exists puts the circuit forward to that snapshot.
C12_CtrlZUndoesCtrlShiftZRedoes ==
    [][ /\ (KeyDownOf("z", TRUE, FALSE) /\ AfterAnEdit) =>
              /\ Snapshot(circuit') = app.history[app.historyIndex]
              /\ app'.historyIndex = app.historyIndex - 1
        /\ (KeyDownOf("z", TRUE, TRUE) /\ app.historyIndex < Len(app.history) - 1) =>
              /\ Snapshot(circuit') = app.history[app.historyIndex + 2]
              /\ app'.historyIndex = app.historyIndex + 1
      ]_vars

\* Escape has just been handled: the step is a keydown of Escape.
EscapeStep == \E ctrl \in BOOLEAN : \E shift \in BOOLEAN : KeyDownOf("escape", ctrl, shift)

\* C14: whatever the input state, once Escape is handled no wire is being
\* drawn, the selection is empty and the active tool is 'select'.
C14_EscapeCancels ==
    [][ EscapeStep =>
            /\ ~input'.isDrawingWire
            /\ input'.wireStartPoint = Null
            /\ input'.selectedComponents = << >>
            /\ input'.selectedTool = "select"
      ]_vars

\* Escape was handled while a wire was being drawn with the wire tool.
C14_Witness ==
    /\ event.cancelled # Null
    /\ event.cancelled.isDrawingWire
    /\ event.cancelled.selectedTool = "wire"
    /\ input.selectedTool = "select"
    /\ ~input.isDrawingWire

\* The places of the non-ground components of comps, in order.
NonGround(comps) == Ascending({i \in 1..Len(comps) : comps[i].type # "ground"})

\* What getComponentResults(id) returns when results is the stored result.
ResultOf(results, id) == getComponentResults([simulationResults |-> results], id)

\* C21: after a successful run the netlist elements are the non-ground
\* components, one each and in order; each element's result is the one
\* getComponentResults returns for its id, and its voltage is V[n1] - V[n2]
\* for its node ids in the returned vector; a ground component has no
\* element and its id has no result.
C21_OneResultPerElement ==
    ret.success =>
        LET comps == ret.call.components
            els == ret.results.netlist.components
            V == ret.results.nodeVoltages
            shown == NonGround(comps)
        IN /\ Len(els) = Len(shown)
           /\ \A k \in 1..Len(els) :
                 /\ els[k].id = comps[shown[k]].id
                 /\ els[k].type = comps[shown[k]].type
                 /\ Cardinality({j \in 1..Len(els) : els[j].id = els[k].id}) = 1
                 /\ ResultOf(ret.results, els[k].id) = els[k].simulationResults
                 /\ els[k].nodes[1] + 1 \in DOMAIN V
                 /\ els[k].nodes[2] + 1 \in DOMAIN V
                 /\ els[k].simulationResults.voltage
                        = RSub(V[els[k].nodes[1] + 1], V[els[k].nodes[2] + 1])
           /\ \A i \in 1..Len(comps) :
                 comps[i].type = "ground" =>
                     /\ \A j \in 1..Len(els) : els[j].id # comps[i].id
                     /\ ResultOf(ret.results, comps[i].id) = Null

\* A successful run of a circuit with a ground and two other components, one
\* of them with a non-zero voltage across it between two non-ground nodes.
C21_Witness ==
    /\ ret.success
    /\ \E i \in 1..Len(ret.call.components) : ret.call.components[i].type = "ground"
    /\ Len(ret.results.netlist.components) >= 2
    /\ \E k \in 1..Len(ret.results.netlist.components) :
          /\ ret.results.netlist.components[k].nodes[1] # 0
          /\ ret.results.netlist.components[k].nodes[2] # 0
          /\ ret.results.netlist.components[k].simulationResults.voltage # RZero

\* The answer names an issue of the given kind for the element with the id.
Names(answer, kind, id) ==
    \E k \in 1..Len(answer.issues) : answer.issues[k].issue = kind /\ answer.issues[k].id = id

\* The resistor declares a power rating: its properties hold one.
DeclaresRating(comp) == comp.type = "resistor" /\ "power" \in DOMAIN comp.properties

\* What the claim asks of validateCircuit's answer when results is stored.
ValidatesAsClaimed(answer, results) ==
    IF results = Null
    THEN answer = [isValid |-> FALSE, issues |-> <<NotSimulatedIssue>>]
    ELSE /\ \A k \in 1..Len(results.netlist.components) :
              LET comp == results.netlist.components[k]
              IN /\ Names(answer, "High current", comp.id)
                      <=> AbsExceeds(comp.simulationResults.current, RInt(HighCurrentAmps))
                 /\ Names(answer, "Power rating exceeded", comp.id)
                      <=> /\ DeclaresRating(comp)
                          /\ AbsExceeds(comp.simulationResults.power, comp.properties.power)
         /\ \A k \in 1..Len(answer.issues) :
              /\ answer.issues[k].issue \in {"High current", "Power rating exceeded"}
              /\ \E j \in 1..Len(results.netlist.components) :
                    results.netlist.components[j].id = answer.issues[k].id
         /\ answer.isValid <=> (answer.issues = << >>)

\* C22: validateCircuit names a high current for exactly the elements with
\* |current| > 10 and an exceeded rating for exactly the resistors that
\* declare a power rating with |power| above it; isValid is true exactly when
\* there is no issue; and with no successful run stored the answer is invalid
\* with the single issue 'not simulated'.
C22_ValidationIssues ==
    [][ ValidateCircuit => ValidatesAsClaimed(reply'.value, analyzer.simulationResults) ]_vars

\* The netlist buildNetlist made of the call's components and wires.
CallNetlist == NetlistOf(ret.call.components, ret.call.wires)

\* Every node id of every element of the netlist is one of 0..nodeCount-1.
NodeIdsInRange(netlist) ==
    \A k \in 1..Len(netlist.components) :
        /\ Len(netlist.components[k].nodes) = 2
        /\ \A t \in 1..2 : netlist.components[k].nodes[t] \in 0..(netlist.nodeCount - 1)

\* C23: every node id stored in a netlist element lies in 0..nodeCount-1;
\* so where the system is assembled every non-ground id, less one, is a row
\* of the n = nodeCount-1 rows of G and I, and after a successful run every
\* id is a place of the returned node-voltage vector.
C23_NodeIdsInBounds ==
    Called =>
        /\ NodeIdsInRange(CallNetlist)
        /\ Ran(ret, "assemble") =>
              \A k \in 1..Len(CallNetlist.components) : \A t \in 1..2 :
                  CallNetlist.components[k].nodes[t] # 0 =>
                      CallNetlist.components[k].nodes[t] - 1 \in 0..(CallNetlist.nodeCount - 2)
        /\ ret.success =>
              /\ ret.results.netlist = [CallNetlist EXCEPT !.components =
                     [k \in 1..Len(@) |->
                         [id |-> @[k].id, type |-> @[k].type, nodes |-> @[k].nodes,
                          properties |-> @[k].properties,
                          simulationResults |->
                              ret.results.netlist.components[k].simulationResults]]]
              /\ \A k \in 1..Len(CallNetlist.components) : \A t \in 1..2 :
                    CallNetlist.components[k].nodes[t] + 1 \in DOMAIN ret.results.nodeVoltages

\* A successful run whose netlist has three nodes or more and an element on
\* the node with the largest id.
C23_Witness ==
    /\ ret.success
    /\ ret.results.netlist.nodeCount >= 3
    /\ \E k \in 1..Len(ret.results.netlist.components) : \E t \in 1..2 :
          ret.results.netlist.components[k].nodes[t] = ret.results.netlist.nodeCount - 1

\* The resistance whose reciprocal addResistor adds to G for the element:
\* one over the diagonal entry it leaves in an empty system of one node.
StampedResistance(comp) ==
    RDiv(RInt(1),
         addResistor([G |-> ZeroMatrix(1), I |-> ZeroVector(1)],
                     [comp EXCEPT !.nodes = <<1, 0>>]).G[1][1])

\* C24: the current post-processing gives a resistor is its voltage divided
\* by the resistance whose reciprocal was stamped into G for it, whatever
\* its resistance, 0 or none included.
C24_SameResistanceStampedAndUsed ==
    ret.success =>
        \A k \in 1..Len(ret.results.netlist.components) :
            LET comp == ret.results.netlist.components[k]
            IN comp.type = "resistor" =>
                  comp.simulationResults.current
                      = Finite(RDiv(comp.simulationResults.voltage, StampedResistance(comp)))

\* The element stamped last is no resistor of negative resistance.
NoNegativeResistance ==
    (system.comp # Null /\ system.comp.type = "resistor"
        /\ "resistance" \in DOMAIN system.comp.properties) =>
        system.comp.properties.resistance[1] >= 0

\* C25: G as the assembly loop leaves it is symmetric, and while no resistor
\* of negative resistance is stamped no diagonal entry is negative.
C25_SymmetricG ==
    /\ \A r \in 1..system.n : \A c \in 1..system.n : system.G[r][c] = system.G[c][r]
    /\ NoNegativeResistance => \A r \in 1..system.n : RLeq(RZero, system.G[r][r])

\* A resistor was stamped between two non-ground nodes of a system that a
\* resistor and a source were stamped into before.
C25_Witness ==
    /\ system.comp # Null
    /\ system.comp.type = "resistor"
    /\ system.comp.nodes = <<1, 2>>
    /\ system.before.G # ZeroMatrix(2)
    /\ system.G[1][2] # RZero
    /\ system.G[1][2] # system.before.G[1][2]

\* The snapshots up to the current one: what saveState's slice keeps.
UpToCurrent == SubSeq(app.history, 1, app.historyIndex + 1)

\* C26: the history index always points into the history; saveState leaves
\* the index on the last entry, which is the snapshot just saved, drops the
\* snapshots that were ahead of the index, and leaves nothing to redo; undo
\* at index 0 and redo at the last index change neither circuit nor history.
C26_HistoryIndexInRange ==
    /\ [](0 <= app.historyIndex /\ app.historyIndex <= Len(app.history) - 1)
    /\ [][ ClearCircuit =>
              /\ app'.historyIndex = Len(app'.history) - 1
              /\ app'.history = IF Len(UpToCurrent) >= HistoryLimit
                                THEN Tail(UpToCurrent) \o <<Snapshot(circuit')>>
                                ELSE UpToCurrent \o <<Snapshot(circuit')>>
              /\ redo(Editor(circuit', app', input')) = Editor(circuit', app', input') ]_vars
    /\ [][ (Undo /\ app.historyIndex = 0) => UNCHANGED <<circuit, app, input>> ]_vars
    /\ [][ (Redo /\ app.historyIndex = Len(app.history) - 1) =>
              UNCHANGED <<circuit, app, input>> ]_vars

\* The example's snapshot, which was ahead of the index after an undo, is
\* gone: a cleared circuit was saved over it, and the index is on that entry.
C26_Witness ==
    /\ app.history = <<Snapshot(EmptyCircuit), Snapshot(EmptyCircuit)>>
    /\ app.historyIndex = 1
    /\ circuit = EmptyCircuit

\* The entry of the selection is an object of the circuit's arrays.
InCircuit(ref, c) ==
    /\ ref.live
    /\ ref.index \in 1..(IF ref.kind = "wire" THEN Len(c.wires) ELSE Len(c.components))

\* Delete or Backspace has just been handled.
DeleteStep ==
    \E key \in {"delete", "backspace"} : \E ctrl \in BOOLEAN : \E shift \in BOOLEAN :
        KeyDownOf(key, ctrl, shift)

\* C27: every entry of selectedComponents is an object of the controller's
\* current components or wires, also once the circuit was replaced; and a
\* Delete key press takes as many objects out of the circuit as are selected.
C27_SelectionIsInCircuit ==
    /\ [](\A i \in 1..Len(input.selectedComponents) :
              InCircuit(input.selectedComponents[i], circuit))
    /\ [][ DeleteStep =>
              Len(circuit'.components) + Len(circuit'.wires)
                  = Len(circuit.components) + Len(circuit.wires)
                        - Len(input.selectedComponents) ]_vars

\* A left click at worldPos has just been handled with the wire tool active.
WireClickAt(worldPos) ==
    /\ input.selectedTool = "wire"
    /\ \E ctrl \in BOOLEAN : \E shift \in BOOLEAN : \E id \in NewIds :
          HandledWith(handleLeftMouseDown(Editor(circuit, app, input), worldPos, ctrl, shift, id),
                      Null)

\* A tool other than the active one has just been chosen, by button or by key.
SwitchToOtherTool ==
    \/ \E tool \in Tools \ {input.selectedTool} :
          HandledWith(setSelectedTool(Editor(circuit, app, input), tool), Null)
    \/ \E key \in {"s", "l", "g", "c", "v"} : \E shift \in BOOLEAN :
          /\ handleToolShortcuts(Editor(circuit, app, input), key, FALSE).input.selectedTool
                 # input.selectedTool
          /\ KeyDownOf(key, FALSE, shift)

\* The step appends one wire, from the start point to another point.
CreatesWire ==
    /\ Len(circuit'.wires) = Len(circuit.wires) + 1
    /\ SubSeq(circuit'.wires, 1, Len(circuit.wires)) = circuit.wires
    /\ circuit'.wires[Len(circuit'.wires)].startPoint = input.wireStartPoint

AcceptedAs(c) ==
    \E text \in Texts : \E id \in NewIds :
        /\ NonBlank(text) # << >>
        /\ \A i \in 1..Len(NonBlank(text)) : ~parseLine(NonBlank(text)[i], 0).throws
        /\ c = parseCircuitData(text, id)

C29_ParseReplacesOnlyValidInput ==
    [][ event'.parsed # "none" =>
          /\ event'.parsed \in {"blank", "rejected"} => UNCHANGED <<circuit, app>>
          /\ event'.parsed = "accepted" =>
                /\ AcceptedAs(circuit')
                /\ app'.history[app'.historyIndex + 1] = Snapshot(circuit')
                /\ app'.historyIndex = app.historyIndex + 1 ]_vars

\* A rejected text typed after an accepted one: the parsed circuit is still
\* there, as the third snapshot after the two of the constructor.
C29_Witness ==
    /\ event.parsed = "rejected"
    /\ circuit # ExampleCircuit
    /\ Len(circuit.components) > 0
    /\ Len(app.history) = 3
    /\ app.historyIndex = 2
    /\ app.history[3] = Snapshot(circuit)

\* C30: reset() puts the engine back in the state of a new analyzer; from
\* then until a simulate call succeeds, validateCircuit answers isValid false
\* with the one issue 'Circuit not simulated yet', getComponentResults
\* answers null for every id and getAnalysisReport answers 'No simulation
\* results available', failed simulate calls and queries in between included.
AnswersAsNeverSimulated(self) ==
    /\ validateCircuit(self) = [isValid |-> FALSE, issues |-> <<NotSimulatedIssue>>]
    /\ \A id \in KnownIds : getComponentResults(self, id) = Null
    /\ getAnalysisReport(self) = [text |-> "No simulation results available"]

C30_ResetIsNeverSimulated ==
    /\ [](lastRun = Null => AnswersAsNeverSimulated(analyzer))
    /\ [][ (lastRun # Null /\ lastRun' = Null) =>
              /\ Reset
              /\ analyzer' = NewAnalyzer ]_vars
    /\ [][ (lastRun = Null /\ ~AnswersAsNeverSimulated(analyzer')) =>
              /\ ret'.success
              /\ SimulateStep ]_vars
    /\ [][ (lastRun = Null /\ reply' # reply) =>
              \/ reply'.value = [isValid |-> FALSE, issues |-> <<NotSimulatedIssue>>]
              \/ reply'.value = [text |-> "No simulation results available"] ]_vars

\* A successful run, then reset(), then validateCircuit() asked.
C30_Witness ==
    /\ ret.success
    /\ lastRun = Null
    /\ analyzer = NewAnalyzer
    /\ reply.op = "validateCircuit"
    /\ reply.value = [isValid |-> FALSE, issues |-> <<NotSimulatedIssue>>]

====
